---- MODULE Spec2Model ----
(***************************************************************************)
(* Model of the topology-aware classification engine LogicalRCA            *)
(* (src/inference_engine.py).  Texts are strings; the matching and the     *)
(* sanitising regular expressions are computed character by character.     *)
(***************************************************************************)
EXTENDS Integers, Sequences, FiniteSets, TLC

(***************************************************************************)
(* Text primitives (Python str / re semantics)                             *)
(***************************************************************************)

\* t[i-1:i] : the character at 1-based position i
At(t, i) == SubSeq(t, i, i)

\* t.startswith(kw, i-1)
StartsAt(t, i, kw) == i + Len(kw) - 1 <= Len(t) /\ SubSeq(t, i, i + Len(kw) - 1) = kw

\* kw in t
Contains(t, kw) == \E i \in 1..Len(t) : StartsAt(t, i, kw)

\* str.lower() on one character
LowerChar(c) ==
    CASE c = "A" -> "a" [] c = "B" -> "b" [] c = "C" -> "c" [] c = "D" -> "d"
      [] c = "E" -> "e" [] c = "F" -> "f" [] c = "G" -> "g" [] c = "H" -> "h"
      [] c = "I" -> "i" [] c = "J" -> "j" [] c = "K" -> "k" [] c = "L" -> "l"
      [] c = "M" -> "m" [] c = "N" -> "n" [] c = "O" -> "o" [] c = "P" -> "p"
      [] c = "Q" -> "q" [] c = "R" -> "r" [] c = "S" -> "s" [] c = "T" -> "t"
      [] c = "U" -> "u" [] c = "V" -> "v" [] c = "W" -> "w" [] c = "X" -> "x"
      [] c = "Y" -> "y" [] c = "Z" -> "z" [] OTHER -> c

\* str.upper() on one character
UpperChar(c) ==
    CASE c = "a" -> "A" [] c = "b" -> "B" [] c = "c" -> "C" [] c = "d" -> "D"
      [] c = "e" -> "E" [] c = "f" -> "F" [] c = "g" -> "G" [] c = "h" -> "H"
      [] c = "i" -> "I" [] c = "j" -> "J" [] c = "k" -> "K" [] c = "l" -> "L"
      [] c = "m" -> "M" [] c = "n" -> "N" [] c = "o" -> "O" [] c = "p" -> "P"
      [] c = "q" -> "Q" [] c = "r" -> "R" [] c = "s" -> "S" [] c = "t" -> "T"
      [] c = "u" -> "U" [] c = "v" -> "V" [] c = "w" -> "W" [] c = "x" -> "X"
      [] c = "y" -> "Y" [] c = "z" -> "Z" [] OTHER -> c

RECURSIVE Lower(_)
\* str.lower(): character by character, the text being split in halves
Lower(t) ==
    IF Len(t) <= 1 THEN LowerChar(t)
    ELSE Lower(SubSeq(t, 1, Len(t) \div 2)) \o Lower(SubSeq(t, Len(t) \div 2 + 1, Len(t)))

RECURSIVE Upper(_)
\* str.upper(): character by character, the text being split in halves
Upper(t) ==
    IF Len(t) <= 1 THEN UpperChar(t)
    ELSE Upper(SubSeq(t, 1, Len(t) \div 2)) \o Upper(SubSeq(t, Len(t) \div 2 + 1, Len(t)))

\* the regular expression class \s
IsSpace(c) == c \in {" ", "\t", "\n"}

\* the regular expression class \d
IsDigit(c) == c \in {"0", "1", "2", "3", "4", "5", "6", "7", "8", "9"}

RECURSIVE SkipSpace(_, _)
\* first position >= i that holds no whitespace (Len(t) + 1 when there is none)
SkipSpace(t, i) == IF i <= Len(t) /\ IsSpace(At(t, i)) THEN SkipSpace(t, i + 1) ELSE i

RECURSIVE SkipNonSpace(_, _)
\* first position >= i that holds whitespace (Len(t) + 1 when there is none)
SkipNonSpace(t, i) == IF i <= Len(t) /\ ~IsSpace(At(t, i)) THEN SkipNonSpace(t, i + 1) ELSE i

RECURSIVE Join(_, _)
\* sep.join(parts)
Join(sep, parts) ==
    IF parts = <<>> THEN ""
    ELSE IF Len(parts) = 1 THEN parts[1]
    ELSE parts[1] \o sep \o Join(sep, Tail(parts))

RECURSIVE FindQuote(_, _)
\* first position >= i that holds a double quote (Len(t) + 1 when there is none)
FindQuote(t, i) == IF i <= Len(t) /\ At(t, i) # "\"" THEN FindQuote(t, i + 1) ELSE i

(***************************************************************************)
(* _sanitize_text: four re.sub passes.  MatchN(t, i) is the last position  *)
(* of the match of pattern N that starts at position i, or 0; ReplN is the *)
(* replacement text of that match.                                         *)
(***************************************************************************)

RedactToken == "********"

\* \s+\d\s+\S+ starting at position a: last position of the match, or 0
TypeAndValueEnd(t, a) ==
    IF ~(a <= Len(t) /\ IsSpace(At(t, a))) THEN 0
    ELSE LET b == SkipSpace(t, a) IN
         IF ~(b <= Len(t) /\ IsDigit(At(t, b))) THEN 0
         ELSE IF ~(b + 1 <= Len(t) /\ IsSpace(At(t, b + 1))) THEN 0
         ELSE LET d == SkipSpace(t, b + 1) IN
              IF d > Len(t) THEN 0 ELSE SkipNonSpace(t, d) - 1

\* (encrypted-password\s+)"[^"]+"
Match1(t, i) ==
    IF ~StartsAt(t, i, "encrypted-password") THEN 0
    ELSE LET a == i + Len("encrypted-password") IN
         IF ~(a <= Len(t) /\ IsSpace(At(t, a))) THEN 0
         ELSE LET b == SkipSpace(t, a) IN
              IF ~(b <= Len(t) /\ At(t, b) = "\"") THEN 0
              ELSE LET c == FindQuote(t, b + 1) IN
                   IF c <= Len(t) /\ c > b + 1 THEN c ELSE 0

Repl1(t, i) ==
    SubSeq(t, i, SkipSpace(t, i + Len("encrypted-password")) - 1) \o "\"" \o RedactToken \o "\""

\* (password|secret)\s+(\d)\s+\S+
Keyword2(t, i) ==
    IF StartsAt(t, i, "password") THEN "password"
    ELSE IF StartsAt(t, i, "secret") THEN "secret" ELSE ""

Match2(t, i) ==
    IF Keyword2(t, i) = "" THEN 0 ELSE TypeAndValueEnd(t, i + Len(Keyword2(t, i)))

Repl2(t, i) ==
    Keyword2(t, i) \o " " \o At(t, SkipSpace(t, i + Len(Keyword2(t, i)))) \o " " \o RedactToken

\* last position of group 1 of pattern 3, (username\s+\S+\s+secret), or 0
Group3End(t, i) ==
    IF ~StartsAt(t, i, "username") THEN 0
    ELSE LET a == i + Len("username") IN
         IF ~(a <= Len(t) /\ IsSpace(At(t, a))) THEN 0
         ELSE LET b == SkipSpace(t, a) IN
              IF b > Len(t) THEN 0
              ELSE LET c == SkipNonSpace(t, b) IN
                   IF c > Len(t) THEN 0
                   ELSE LET d == SkipSpace(t, c) IN
                        IF StartsAt(t, d, "secret") THEN d + Len("secret") - 1 ELSE 0

\* (username\s+\S+\s+secret)\s+\d\s+\S+
Match3(t, i) ==
    IF Group3End(t, i) = 0 THEN 0 ELSE TypeAndValueEnd(t, Group3End(t, i) + 1)

Repl3(t, i) == SubSeq(t, i, Group3End(t, i)) \o " 5 " \o RedactToken

\* (snmp-server community)\s+\S: the first character of the community only
Match4FirstChar(t, i) ==
    IF ~StartsAt(t, i, "snmp-server community") THEN 0
    ELSE LET a == i + Len("snmp-server community") IN
         IF ~(a <= Len(t) /\ IsSpace(At(t, a))) THEN 0
         ELSE LET b == SkipSpace(t, a) IN
              IF b > Len(t) THEN 0 ELSE b

\* (snmp-server community)\s+\S+
Match4(t, i) ==
    IF ~StartsAt(t, i, "snmp-server community") THEN 0
    ELSE LET a == i + Len("snmp-server community") IN
         IF ~(a <= Len(t) /\ IsSpace(At(t, a))) THEN 0
         ELSE LET b == SkipSpace(t, a) IN
              IF b > Len(t) THEN 0 ELSE SkipNonSpace(t, b) - 1

Repl4(t, i) == "snmp-server community " \o RedactToken

\* the least element of a non-empty set of positions
First(S) == CHOOSE j \in S : \A k \in S : j <= k

\* re.sub scans from the left: the next match is the leftmost one that starts at or
\* after position i, and the scan goes on behind its end.  SubN(t, i) is the result
\* for t[i-1:]; SubNFrom(t, i, starts) is the same, starts being the positions >= i
\* where a match begins.

RECURSIVE Sub1(_, _)
Sub1From(t, i, starts) ==
    IF starts = {} THEN SubSeq(t, i, Len(t))
    ELSE SubSeq(t, i, First(starts) - 1) \o Repl1(t, First(starts))
         \o Sub1(t, Match1(t, First(starts)) + 1)

Sub1(t, i) == Sub1From(t, i, {j \in i..Len(t) : Match1(t, j) > 0})

RECURSIVE Sub2(_, _)
Sub2From(t, i, starts) ==
    IF starts = {} THEN SubSeq(t, i, Len(t))
    ELSE SubSeq(t, i, First(starts) - 1) \o Repl2(t, First(starts))
         \o Sub2(t, Match2(t, First(starts)) + 1)

Sub2(t, i) == Sub2From(t, i, {j \in i..Len(t) : Match2(t, j) > 0})

RECURSIVE Sub3(_, _)
Sub3From(t, i, starts) ==
    IF starts = {} THEN SubSeq(t, i, Len(t))
    ELSE SubSeq(t, i, First(starts) - 1) \o Repl3(t, First(starts))
         \o Sub3(t, Match3(t, First(starts)) + 1)

Sub3(t, i) == Sub3From(t, i, {j \in i..Len(t) : Match3(t, j) > 0})

RECURSIVE Sub4(_, _)
Sub4From(t, i, starts) ==
    IF starts = {} THEN SubSeq(t, i, Len(t))
    ELSE SubSeq(t, i, First(starts) - 1) \o Repl4(t, First(starts))
         \o Sub4(t, Match4(t, First(starts)) + 1)

Sub4(t, i) == Sub4From(t, i, {j \in i..Len(t) : Match4(t, j) > 0})

_sanitize_text(text) == Sub4(Sub3(Sub2(Sub1(text, 1), 1), 1), 1)

(***************************************************************************)
(* Bounds, and the texts the model is run on                               *)
(***************************************************************************)

\* tokens per text of a direct _sanitize_text call
MaxTokens == 4

\* credential keywords, a type digit, a quoted string and plain tokens
SanitizerTokens ==
    {"username bob", "secret", "encrypted-password", "snmp-server community", "7",
     "\"a b\"", "public"}

\* the texts of the direct _sanitize_text calls: up to MaxTokens tokens, one space between
SanitizerTexts ==
    {Join(" ", ts) : ts \in UNION {[1..n -> SanitizerTokens] : n \in 0..MaxTokens}}

\* alarms per analyze call
MaxAlarms == 2

\* fragments per alert list of a direct analyze_redundancy_depth call
MaxFragments == 2

\* alarms per batch of analyze on the two-level topology
MaxChainAlarms == 4

\* the alert appended to a silent suspect (line 238)
SyntheticMessage == "Silent Failure Suspected (Derived from child Connection Lost)"

\* messages of the alarms given to analyze
AlarmMessages ==
    {"Connection Lost", "Host unreachable", "Device Down: host unreachable", "PSU Fail"}

\* pieces of the alert texts given to analyze_redundancy_depth
Fragments ==
    {"Device Down", "device down", "Thermal Shutdown", "PSU Fail", "Power Supply 1 failed",
     "dual", "Dual Loss", "secret 7", "snmp-server community", "Fan Fail", "overheat", "Memory leak",
     "Memory leak: out of memory", "Link flap"}

\* the messages made of k fragments
MessagesOf(k) == {Join(" ", f) : f \in [1..k -> Fragments]}

RECURSIVE AlertsWithin(_)
\* the alert lists made of at most n fragments in all
AlertsWithin(n) ==
    {<<>>} \cup UNION {{<<m>> \o rest : m \in MessagesOf(k), rest \in AlertsWithin(n - k)} :
                         k \in 1..n}

DepthAlertLists == AlertsWithin(MaxFragments)

\* messages of the alarms given to analyze on the two-level topology
ChainMessages == {"Connection Lost", "PSU Fail"}

\* every message a msg_map of the model can hold (an enumerated set)
KnownMessages == {m : m \in AlarmMessages \cup ChainMessages \cup {SyntheticMessage}}

\* every alert list the model gives to analyze_redundancy_depth (an enumerated set)
KnownAlertLists ==
    {a : a \in DepthAlertLists
              \cup UNION {[1..n -> AlarmMessages] : n \in 1..MaxAlarms}
              \cup UNION {[1..n -> ChainMessages] : n \in 1..MaxChainAlarms}
              \cup {<<SyntheticMessage>>}}

(***************************************************************************)
(* State                                                                   *)
(***************************************************************************)

VARIABLES
    topology,         \* self.topology: sequence of [id, info], in dict order
    children_map,     \* self.children_map: sequence of [parent, children]
    api_key,          \* TRUE iff os.environ holds a non-empty GOOGLE_API_KEY
    api_configured,   \* self._api_configured (self.model is set with it)
    pc,               \* "idle" | "classify" | "done": position of the analyze call
    alarms,           \* the argument of analyze: sequence of [device_id, message]
    msg_map,          \* the call-local msg_map: sequence of [id, msgs], in dict order
    silent_suspects,  \* the call-local silent_suspects: sequence of [id, ...evidence]
    idx,              \* position of the for loop over msg_map.items()
    results,          \* the results list
    requests,         \* what the prompts given to generate_content were built from, in order
    depth_call,       \* arguments and external outcome of a direct analyze_redundancy_depth call
    depth_result,     \* what that call returned
    raw_text,         \* the argument of a direct _sanitize_text call
    safe_text,        \* what that call returned
    answers,          \* the environment: what the external service answers, per device
    configure_failures, \* the environment: how many calls of genai.configure raise
    first_results,    \* what analyze returned for the same alarms in another order
    devices,          \* the device ids of a page: keys of topology["topology"] / session devices
    connections,      \* the connection list of a page: sequence of [from, to, type]
    scenario_key,     \* MockZabbixAPI.scenario_key
    problems,         \* the problems list given to perform_rca_simple
    reordered,        \* the same problems in another order
    rca,              \* what perform_rca_simple returned for problems
    rca_reordered,    \* what perform_rca_simple returned for reordered
    root_host,        \* argument of _get_all_downstream_hosts / get_all_impacts
    unavailable_hosts, \* argument problem_hosts of get_all_impacts
    queue,            \* the local queue of the traversal
    visited,          \* the local visited set of the traversal
    downstream,       \* the list _get_all_downstream_hosts builds
    impacts           \* the list get_all_impacts builds

vars == <<topology, children_map, api_key, api_configured, pc, alarms, msg_map,
          silent_suspects, idx, results, requests, depth_call, depth_result, raw_text,
          safe_text, answers, configure_failures, first_results, devices, connections,
          scenario_key, problems, reordered, rca, rca_reordered, root_host,
          unavailable_hosts, queue, visited, downstream, impacts>>

\* the state of the pages, which the engine does not touch
pageVars == <<devices, connections, scenario_key, problems, reordered, rca, rca_reordered,
              root_host, unavailable_hosts, queue, visited, downstream, impacts>>

\* what a single call of analyze does not touch
rerunVars == <<answers, configure_failures, first_results>>

\* Python None (also: a key that is missing from a dict read with .get)
None == "None"

(***************************************************************************)
(* Sequences used as insertion-ordered dicts                               *)
(***************************************************************************)

\* key in d, for a dict with key field "id"
HasId(d, k) == \E i \in 1..Len(d) : d[i].id = k

\* d[k], for a dict with key field "id"
ById(d, k) == d[CHOOSE i \in 1..Len(d) : d[i].id = k]

\* set of keys of a dict with key field "id"
Ids(d) == {d[i].id : i \in 1..Len(d)}

(***************************************************************************)
(* Topology helpers                                                        *)
(***************************************************************************)

\* a psu_count value as found in metadata.hw_inventory
NoPsu == [kind |-> "missing", val |-> 0, text |-> ""]
IntPsu(n) == [kind |-> "int", val |-> n, text |-> ""]
TextPsu(t) == [kind |-> "text", val |-> 0, text |-> t]

\* {} : what topology.get(device_id, {}) returns for an unknown device
EmptyMeta == [psu_count |-> NoPsu, redundancy_type |-> "", location |-> ""]
EmptyInfo == [is_dict |-> TRUE, parent_id |-> None, parent_ids |-> <<>>, metadata |-> EmptyMeta]

\* a topology entry that is no dict and has no attribute (a string, a number, None)
NotAMapping ==
    [is_dict |-> FALSE, parent_id |-> None, parent_ids |-> <<>>, metadata |-> EmptyMeta]

\* a parent_id value is None, a str, or a list, which is written as its repr
IsList(p) == p # None /\ StartsAt(p, 1, "[")

\* hash(p) raises TypeError for a list
Hashable(p) == ~IsList(p)

_get_device_info(device_id) ==
    IF HasId(topology, device_id) THEN ById(topology, device_id).info ELSE EmptyInfo

\* info.get("parent_id") for a dict, None for an entry without the attribute
ParentOfInfo(info) == IF info.is_dict THEN info.parent_id ELSE None

_get_parent_id(device_id) == ParentOfInfo(_get_device_info(device_id))

_get_metadata(device_id) ==
    IF _get_device_info(device_id).is_dict THEN _get_device_info(device_id).metadata
    ELSE EmptyMeta

\* bool(p) for a parent_id value
Truthy(p) == p # None /\ p # "" /\ p # "[]"

DigitVal(c) ==
    CASE c = "0" -> 0 [] c = "1" -> 1 [] c = "2" -> 2 [] c = "3" -> 3 [] c = "4" -> 4
      [] c = "5" -> 5 [] c = "6" -> 6 [] c = "7" -> 7 [] c = "8" -> 8 [] c = "9" -> 9

AllDigits(t) == t # "" /\ \A i \in 1..Len(t) : IsDigit(At(t, i))

RECURSIVE DecimalValue(_)
DecimalValue(t) ==
    IF t = "" THEN 0
    ELSE 10 * DecimalValue(SubSeq(t, 1, Len(t) - 1)) + DigitVal(At(t, Len(t)))

\* int(v) raises for this psu_count value (a string that is no decimal numeral)
IntRaises(v) == v.kind = "text" /\ ~AllDigits(v.text)

\* int(v)
IntOf(v) == IF v.kind = "int" THEN v.val ELSE DecimalValue(v.text)

\* variant of _get_psu_count that never reads the inventory
PsuCountIgnoringInventory(device_id, default) == default

\* variant of _get_psu_count that looks at redundancy_type before the inventory
PsuCountRedundancyFirst(device_id, default) ==
    LET md == _get_metadata(device_id) IN
    IF Upper(md.redundancy_type) = "PSU" THEN 2
    ELSE IF md.psu_count.kind # "missing" /\ ~IntRaises(md.psu_count) THEN IntOf(md.psu_count)
    ELSE default

_get_psu_count(device_id, default) ==
    LET md == _get_metadata(device_id) IN
    IF md.psu_count.kind # "missing" /\ ~IntRaises(md.psu_count) THEN IntOf(md.psu_count)
    ELSE IF Upper(md.redundancy_type) = "PSU" THEN 2
    ELSE default

\* variant of SetDefaultAppend that adds a new entry even when the key exists
AppendNewEntry(d, k, v) == Append(d, [id |-> k, list |-> <<v>>])

\* d.setdefault(k, []).append(v) on a dict of lists with key field "id"
SetDefaultAppend(d, k, v) ==
    IF HasId(d, k)
    THEN [j \in 1..Len(d) |-> IF d[j].id = k THEN [id |-> k, list |-> Append(d[j].list, v)] ELSE d[j]]
    ELSE Append(d, [id |-> k, list |-> <<v>>])

RECURSIVE BuildChildren(_, _, _)
\* the loop of __init__ over topology.items(), from entry i on, children_map being acc
BuildChildren(topo, i, acc) ==
    IF i > Len(topo) THEN acc
    ELSE LET p == ParentOfInfo(topo[i].info) IN
         BuildChildren(topo, i + 1,
                       IF Truthy(p) THEN SetDefaultAppend(acc, p, topo[i].id) ELSE acc)

\* children_map.get(p, [])
ChildrenOf(p) == IF HasId(children_map, p) THEN ById(children_map, p).list ELSE <<>>

(***************************************************************************)
(* Silent failure inference                                                *)
(***************************************************************************)

SILENT_MIN_CHILDREN == 2

\* SILENT_RATIO = 0.5, as the fraction SILENT_RATIO_NUM / SILENT_RATIO_DEN
SILENT_RATIO_NUM == 1
SILENT_RATIO_DEN == 2

\* the test of _is_connection_loss on msg_l = msg.lower()
ConnectionLossIn(msg_l) ==
    \/ Contains(msg_l, "connection lost")
    \/ Contains(msg_l, "link down")
    \/ Contains(msg_l, "port down")
    \/ Contains(msg_l, "unreachable")

_is_connection_loss(msg) == ConnectionLossIn(Lower(msg))

\* _is_connection_loss on every message of the model, computed once
ConnectionLossMemo == [m \in KnownMessages |-> _is_connection_loss(m)]

\* any(self._is_connection_loss(m) for m in msgs)
AnyConnectionLoss(msgs) == \E i \in 1..Len(msgs) : ConnectionLossMemo[msgs[i]]

\* msg_map.get(c, [])
MsgsOf(mm, c) == IF HasId(mm, c) THEN ById(mm, c).list ELSE <<>>

RECURSIVE Affected(_, _)
\* the children of the list that have a connection-loss message, in order
Affected(children, mm) ==
    IF children = <<>> THEN <<>>
    ELSE (IF AnyConnectionLoss(MsgsOf(mm, Head(children))) THEN <<Head(children)>> ELSE <<>>)
         \o Affected(Tail(children), mm)

Max(a, b) == IF a >= b THEN a ELSE b

\* f"{n / d:.2f}" for 0 <= n <= d, d not a multiple of 8 (no tie at the third decimal)
Format2f(n, d) ==
    LET h == (200 * n + d) \div (2 * d)
        frac == h % 100
    IN  ToString(h \div 100) \o "." \o (IF frac < 10 THEN "0" ELSE "") \o ToString(frac)

\* the report of a suspect
SilentReport(parent_id, n, total) ==
    "[Silent Failure Heuristic]\n"
    \o "- Suspected upstream device: " \o parent_id \o "\n"
    \o "- Affected children: " \o ToString(n) \o "/" \o ToString(total)
    \o " (ratio=" \o Format2f(n, Max(total, 1)) \o ")\n"
    \o "- Evidence: children raised Connection Lost/Unreachable simultaneously\n"
    \o "- Recommended checks:\n"
    \o "  1) Check uplink interface counters/errors on " \o parent_id \o "\n"
    \o "  2) Verify MAC table / ARP / STP state changes around incident time\n"
    \o "  3) Compare syslog/event logs for link flap, STP re-convergence\n"
    \o "  4) Run targeted ping/ARP from CORE side to affected APs\n"

\* variant of SilentThreshold with the ratio compared by > instead of >=
SilentThresholdStrict(n, total) ==
    /\ n >= SILENT_MIN_CHILDREN
    /\ n * SILENT_RATIO_DEN > SILENT_RATIO_NUM * Max(total, 1)

\* the threshold test of _detect_silent_failures for one parent
SilentThreshold(n, total) ==
    /\ n >= SILENT_MIN_CHILDREN
    /\ n * SILENT_RATIO_DEN >= SILENT_RATIO_NUM * Max(total, 1)

\* the body of the loop of _detect_silent_failures for one parent, affected being
\* the list it builds: the entry added to suspects (none: the empty sequence)
DetectOne(mm, parent_id, children, affected) ==
    IF /\ children # <<>>
       /\ ~HasId(mm, parent_id)
       /\ affected # <<>>
       /\ SilentThreshold(Len(affected), Len(children))
    THEN <<[id |-> parent_id,
            children |-> affected,
            evidence_count |-> Len(affected),
            total_children |-> Len(children),
            ratio |-> <<Len(affected), Max(Len(children), 1)>>,
            report |-> SilentReport(parent_id, Len(affected), Len(children))]>>
    ELSE <<>>

RECURSIVE DetectFrom(_, _)
\* the loop of _detect_silent_failures over children_map.items(), from entry i on
DetectFrom(mm, i) ==
    IF i > Len(children_map) THEN <<>>
    ELSE DetectOne(mm, children_map[i].id, children_map[i].list,
                   Affected(children_map[i].list, mm))
         \o DetectFrom(mm, i + 1)

_detect_silent_failures(mm) == DetectFrom(mm, 1)

(***************************************************************************)
(* Core decision function: analyze_redundancy_depth                        *)
(***************************************************************************)

\* HealthStatus
NORMAL == "NORMAL"
WARNING == "WARNING"
CRITICAL == "CRITICAL"

Analysis(st, rs, it) == [status |-> st, reason |-> rs, impact_type |-> it]

\* marks that no local rule returned (control reaches step 4)
Inconclusive == Analysis("INCONCLUSIVE", "", "")

\* safe_alerts = [self._sanitize_text(a) for a in alerts]
SafeAlerts(alerts) == [i \in 1..Len(alerts) |-> _sanitize_text(alerts[i])]

\* joined = " ".join(safe_alerts)
Joined(alerts) == Join(" ", SafeAlerts(alerts))

\* 0) the stop condition, matched on joined
StopCondition(joined) ==
    \/ Contains(joined, "Power Supply: Dual Loss")
    \/ Contains(joined, "Dual Loss")
    \/ Contains(joined, "Device Down")
    \/ Contains(joined, "Thermal Shutdown")

\* variant of PsuSingleFail without the checks for "dual"
PsuSingleFailAnyText(jl) ==
    \/ (Contains(jl, "power supply") /\ Contains(jl, "failed"))
    \/ (Contains(jl, "psu") /\ Contains(jl, "fail"))

\* 1) psu_single_fail, matched on joined_lower
PsuSingleFail(jl) ==
    \/ (Contains(jl, "power supply") /\ Contains(jl, "failed") /\ ~Contains(jl, "dual"))
    \/ (Contains(jl, "psu") /\ Contains(jl, "fail") /\ ~Contains(jl, "dual"))

\* 2) fan_fail and overheat_hint
FanFail(jl) == Contains(jl, "fan fail") \/ (Contains(jl, "fan") /\ Contains(jl, "fail"))

OverheatHint(jl) ==
    Contains(jl, "high temperature") \/ Contains(jl, "overheat") \/ Contains(jl, "thermal")

\* 3) mem_symptom and oom_hint
MemSymptom(jl) ==
    \/ Contains(jl, "memory high")
    \/ Contains(jl, "memory leak")
    \/ (Contains(jl, "memory") /\ (Contains(jl, "leak") \/ Contains(jl, "high")))

OomHint(jl) ==
    \/ Contains(jl, "out of memory")
    \/ Contains(jl, "oom")
    \/ Contains(jl, "killed process")
    \/ Contains(jl, "kernel panic")

\* variant of RuleOf that tries the memory rule before the fan rule
RuleOfMemoryFirst(joined, joined_lower) ==
    IF StopCondition(joined) THEN "stop"
    ELSE IF PsuSingleFail(joined_lower) THEN "psu"
    ELSE IF MemSymptom(joined_lower)
         THEN (IF OomHint(joined_lower) THEN "memory_oom" ELSE "memory")
    ELSE IF FanFail(joined_lower)
         THEN (IF OverheatHint(joined_lower) THEN "fan_overheat" ELSE "fan")
    ELSE "none"

\* the rule of steps 0 to 3 that returns, given joined and joined_lower: first match wins
RuleOf(joined, joined_lower) ==
    IF StopCondition(joined) THEN "stop"
    ELSE IF PsuSingleFail(joined_lower) THEN "psu"
    ELSE IF FanFail(joined_lower)
         THEN (IF OverheatHint(joined_lower) THEN "fan_overheat" ELSE "fan")
    ELSE IF MemSymptom(joined_lower)
         THEN (IF OomHint(joined_lower) THEN "memory_oom" ELSE "memory")
    ELSE "none"

\* joined_lower = joined.lower()
RuleOfJoined(joined) == RuleOf(joined, Lower(joined))

\* variant of MatchedRule without the single PSU failure rule
MatchedRuleSkippingPsu(alerts) ==
    IF alerts = <<>> THEN "no_alerts"
    ELSE IF RuleOfJoined(Joined(alerts)) = "psu" THEN "none"
    ELSE RuleOfJoined(Joined(alerts))

\* the rule that returns for these alerts
MatchedRule(alerts) ==
    IF alerts = <<>> THEN "no_alerts" ELSE RuleOfJoined(Joined(alerts))

\* MatchedRule on every alert list of the model, computed once
MatchedRuleMemo == [a \in KnownAlertLists |-> MatchedRule(a)]

\* what the matched rule returns, psu_count being _get_psu_count(device_id, default=1)
LocalResult(rule, psu_count) ==
        IF rule = "no_alerts" THEN Analysis(NORMAL, "No active alerts detected.", "NONE")
        ELSE IF rule = "stop"
        THEN Analysis(CRITICAL,
                      "Device down / dual PSU loss / thermal shutdown detected (local safety rule).",
                      "Hardware/Physical")
        ELSE IF rule = "psu"
        THEN IF psu_count >= 2
             THEN Analysis(WARNING,
                           "Single PSU failure with redundancy (psu_count=" \o ToString(psu_count)
                             \o ") (local safety rule).",
                           "Hardware/Redundancy")
             ELSE Analysis(CRITICAL,
                           "Single PSU failure without redundancy (psu_count=" \o ToString(psu_count)
                             \o ") (local safety rule).",
                           "Hardware/Physical")
        ELSE IF rule = "fan_overheat"
        THEN Analysis(CRITICAL,
                      "Fan failure with overheat/thermal symptom detected (local safety rule).",
                      "Hardware/Physical")
        ELSE IF rule = "fan"
        THEN Analysis(WARNING,
                      "Fan failure detected. Service likely continues but risk of thermal escalation (local safety rule).",
                      "Hardware/Degraded")
        ELSE IF rule = "memory_oom"
        THEN Analysis(CRITICAL,
                      "Memory leak/high with OOM/crash symptom detected (local safety rule).",
                      "Software/Resource")
        ELSE IF rule = "memory"
        THEN Analysis(WARNING,
                      "Memory high/leak symptom detected. Likely degraded but not down yet (local safety rule).",
                      "Software/Resource")
        ELSE Inconclusive

\* steps 0 to 3 of analyze_redundancy_depth: what the local rules return
LocalRules(device_id, alerts) ==
    LocalResult(MatchedRuleMemo[alerts], _get_psu_count(device_id, 1))

\* what step 4 returns when _ensure_api_configured() is False
NotConfiguredResult ==
    Analysis(WARNING, "API key not configured. Manual analysis required.", "UNKNOWN")

(***************************************************************************)
(* The external service.  An outcome is what generate_content, the strip   *)
(* of the code fence and json.loads leave: kind "raise" (any of them       *)
(* raised, error being str(e)), or kind "object" (a JSON object, a missing *)
(* key being None).                                                        *)
(***************************************************************************)

Raised(e) == [kind |-> "raise", error |-> e, status |-> None, reason |-> None, impact_type |-> None]

Object(st, rs, it) == [kind |-> "object", error |-> "", status |-> st, reason |-> rs, impact_type |-> it]

\* dict.get(key, default) for a value read from the response object
GetOr(v, default) == IF v = None THEN default ELSE v

\* the status mapping of the response
HealthOf(status_str) ==
    IF status_str \in {"GREEN", "NORMAL"} THEN NORMAL
    ELSE IF status_str \in {"YELLOW", "WARNING"} THEN WARNING
    ELSE CRITICAL

\* the try/except block of step 4
ExternalResult(ext) ==
    IF ext.kind = "raise"
    THEN Analysis(WARNING, "AI Analysis Failed: " \o ext.error, "AI_ERROR")
    ELSE Analysis(HealthOf(Upper(GetOr(ext.status, "CRITICAL"))),
                  GetOr(ext.reason, "AI provided no reason"),
                  GetOr(ext.impact_type, "UNKNOWN"))

\* analyze_redundancy_depth, given what _ensure_api_configured() returns and the
\* outcome of the external call (both are read only when no local rule returns)
\* outcomes of one request to the external service
ExtOutcomes ==
    {Raised("deadline exceeded"),
     Object("NORMAL", "Service continues", "NONE"),
     Object("warning", None, "DEGRADED"),
     Object("CRITICAL", "Outage", "OUTAGE"),
     Object("banana", "n/a", None),
     Object(None, None, None)}

\* placeholder for the outcome argument when no request is made
NoRequest == Raised("")

\* ExternalResult on every outcome of the model, computed once
ExternalResultMemo == [e \in {x : x \in ExtOutcomes} |-> ExternalResult(e)]

\* step 4, local being what steps 0 to 3 left
Fallback(local, ensured, ext) ==
    IF local # Inconclusive THEN local
    ELSE IF ~ensured THEN NotConfiguredResult
    ELSE ExternalResultMemo[ext]

analyze_redundancy_depth(device_id, alerts, ensured, ext) ==
    Fallback(LocalRules(device_id, alerts), ensured, ext)

\* the file config_dir/<device_id>.txt: absent, unreadable, or its content
NoFile == [kind |-> "missing", content |-> ""]
Unreadable(e) == [kind |-> "error", content |-> e]
File(content) == [kind |-> "file", content |-> content]

\* the configuration files of the run
ConfigFile(device_id) ==
    IF device_id \in {"R2", "CORE", "G"} THEN File("hostname sw enable secret 5 hunter2")
    ELSE IF device_id = "R1" THEN Unreadable("permission denied")
    ELSE NoFile

_read_config(device_id) ==
    LET f == ConfigFile(device_id) IN
    IF f.kind = "file" THEN f.content
    ELSE IF f.kind = "error" THEN "Error reading config: " \o f.content
    ELSE "Config file not found."

\* every device id of the model (an enumerated set)
KnownDevices ==
    {d : d \in {"CORE", "A1", "A2", "A3", "A4", "G", "S", "C1", "C2", "X", "Y",
                "R2", "R1", "RS", "RT", "RN", "RM", "ghost"}}

\* safe_config = self._sanitize_text(self._read_config(device_id)), computed once
SafeConfigMemo == [d \in KnownDevices |-> _sanitize_text(_read_config(d))]

\* safe_alerts, computed once per alert list
SafeAlertsMemo == [a \in KnownAlertLists |-> SafeAlerts(a)]

\* the values interpolated into the prompt (lines 382-411): metadata and safe_alerts
\* go through json.dumps, safe_config is inserted as it is
PromptParts(device_id, alerts) ==
    [device_id |-> device_id,
     metadata |-> _get_metadata(device_id),
     safe_config |-> SafeConfigMemo[device_id],
     safe_alerts |-> SafeAlertsMemo[alerts]]

\* _ensure_api_configured(): possible (return value, new _api_configured) pairs;
\* genai.configure / GenerativeModel may raise
EnsureOutcomes ==
    IF api_configured THEN {[ok |-> TRUE, configured |-> TRUE]}
    ELSE IF ~api_key THEN {[ok |-> FALSE, configured |-> FALSE]}
    ELSE {[ok |-> TRUE, configured |-> TRUE], [ok |-> FALSE, configured |-> FALSE]}

(***************************************************************************)
(* Public API: analyze.  prob is kept in tenths (9 is 0.9).                *)
(***************************************************************************)

AutoInvestigation ==
    <<"Pull interface counters/errors (uplinks)",
      "Check STP/MAC flaps",
      "Ping/ARP reachability tests from upstream",
      "Correlate syslog around incident time">>

Result(id, messages, prob, type, tier, reason, report, checklist) ==
    [id |-> id, label |-> Join(" / ", messages), prob |-> prob, type |-> type, tier |-> tier,
     reason |-> reason, analyst_report |-> report, auto_investigation |-> checklist]

\* the empty-batch result with the tier of a NORMAL device
NoAlertsResultAsDevice ==
    [id |-> "SYSTEM", label |-> "No alerts detected", prob |-> 3, type |-> "Normal", tier |-> 3,
     reason |-> "No active alerts detected.", analyst_report |-> None,
     auto_investigation |-> <<>>]

\* the result of analyze for an empty alarm list
NoAlertsResult ==
    [id |-> "SYSTEM", label |-> "No alerts detected", prob |-> 0, type |-> "Normal", tier |-> 0,
     reason |-> "No active alerts detected.", analyst_report |-> None,
     auto_investigation |-> <<>>]

RECURSIVE GroupAlarms(_, _, _)
\* for a in alarms: msg_map.setdefault(a.device_id, []).append(a.message)
GroupAlarms(as, i, acc) ==
    IF i > Len(as) THEN acc
    ELSE GroupAlarms(as, i + 1, SetDefaultAppend(acc, as[i].device_id, as[i].message))

RECURSIVE InjectSuspects(_, _, _)
\* for parent_id in silent_suspects: msg_map.setdefault(parent_id, []).append(synthetic)
InjectSuspects(sus, i, acc) ==
    IF i > Len(sus) THEN acc
    ELSE InjectSuspects(sus, i + 1, SetDefaultAppend(acc, sus[i].id, SyntheticMessage))

\* alarmed_ids = set(msg_map.keys())
alarmed_ids == Ids(msg_map)

\* variant of parent_is_alarmed that looks the parent up in silent_suspects
parent_in_suspects(dev) ==
    LET p == _get_parent_id(dev) IN Truthy(p) /\ HasId(silent_suspects, p)

parent_is_alarmed(dev) ==
    LET p == _get_parent_id(dev) IN Truthy(p) /\ p \in alarmed_ids

parent_is_silent_suspect(dev) ==
    LET p == _get_parent_id(dev) IN Truthy(p) /\ HasId(silent_suspects, p)

\* "unreachable" in m.lower()
MentionsUnreachable(m) == Contains(Lower(m), "unreachable")

\* MentionsUnreachable on every message of the model, computed once
UnreachableMemo == [m \in KnownMessages |-> MentionsUnreachable(m)]

\* any("unreachable" in m.lower() for m in messages)
AnyUnreachable(messages) == \E i \in 1..Len(messages) : UnreachableMemo[messages[i]]

\* the three graph branches of the loop body; "none" when the device falls through
GraphBranch(device_id, messages) ==
    IF parent_is_silent_suspect(device_id) /\ AnyConnectionLoss(messages) THEN "symptom"
    ELSE IF AnyUnreachable(messages) /\ parent_is_alarmed(device_id) THEN "cascade"
    ELSE IF HasId(silent_suspects, device_id) THEN "suspect"
    ELSE "none"

\* the result appended by graph branch b, p being the parent id of the device
BranchResult(b, device_id, messages, p) ==
    IF b = "symptom"
    THEN Result(device_id, messages, 4, "Network/ConnectionLost", 3,
                "Downstream symptom under suspected silent failure parent (parent=" \o p \o ").",
                None, <<>>)
    ELSE IF b = "cascade"
    THEN Result(device_id, messages, 2, "Network/Unreachable", 3,
                "Downstream unreachable due to upstream alarm (parent=" \o p \o ").",
                None, <<>>)
    ELSE LET info == ById(silent_suspects, device_id) IN
         Result(device_id, messages, 8, "Network/SilentFailure", 1,
                "Silent failure suspected: " \o ToString(info.evidence_count) \o "/"
                  \o ToString(info.total_children) \o " children affected.",
                info.report, AutoInvestigation)

\* the result appended by the graph branch the device takes
GraphResult(device_id, messages) ==
    BranchResult(GraphBranch(device_id, messages), device_id, messages,
                 _get_parent_id(device_id))

\* variant of ProbTier without the branch of lines 302-304
ProbTierByStatus(analysis) ==
    IF analysis.status = CRITICAL THEN [prob |-> 9, tier |-> 1]
    ELSE IF analysis.status = WARNING THEN [prob |-> 7, tier |-> 2]
    ELSE [prob |-> 3, tier |-> 3]

\* prob and tier of an analysis (lines 302-314)
ProbTier(analysis) ==
    IF analysis.impact_type = "UNKNOWN" /\ Contains(analysis.reason, "API key not configured")
    THEN [prob |-> 5, tier |-> 3]
    ELSE IF analysis.status = CRITICAL THEN [prob |-> 9, tier |-> 1]
    ELSE IF analysis.status = WARNING THEN [prob |-> 7, tier |-> 2]
    ELSE [prob |-> 3, tier |-> 3]

\* the names MatchedRule gives to the rules, and the values _get_psu_count returns
\* on the topologies of the model
RuleNames == {"no_alerts", "stop", "psu", "fan_overheat", "fan", "memory_oom", "memory"}
PsuCounts == {1, 2}

\* every analysis analyze_redundancy_depth returns in the model (an enumerated set)
KnownAnalyses ==
    {a : a \in {LocalResult(r, n) : r \in RuleNames, n \in PsuCounts}
              \cup {NotConfiguredResult}
              \cup {ExternalResult(e) : e \in ExtOutcomes}}

\* ProbTier on every analysis of the model, computed once
ProbTierMemo == [a \in KnownAnalyses |-> ProbTier(a)]

\* the result appended for a device that reaches analyze_redundancy_depth
DepthResult(device_id, messages, analysis) ==
    Result(device_id, messages, ProbTierMemo[analysis].prob, analysis.impact_type,
           ProbTierMemo[analysis].tier, analysis.reason, None, <<>>)

\* an insertion that puts x before the entries of equal prob
InsertBeforeEqual(sorted, x) ==
    LET k == Cardinality({i \in 1..Len(sorted) : sorted[i].prob > x.prob})
    IN  SubSeq(sorted, 1, k) \o <<x>> \o SubSeq(sorted, k + 1, Len(sorted))

\* list.insert keeping prob descending, x after the entries of equal prob
InsertByProb(sorted, x) ==
    LET k == Cardinality({i \in 1..Len(sorted) : sorted[i].prob >= x.prob})
    IN  SubSeq(sorted, 1, k) \o <<x>> \o SubSeq(sorted, k + 1, Len(sorted))

RECURSIVE SortByProb(_)
\* results.sort(key=lambda x: x["prob"], reverse=True): stable
SortByProb(rs) ==
    IF Len(rs) <= 1 THEN rs
    ELSE InsertByProb(SortByProb(SubSeq(rs, 1, Len(rs) - 1)), rs[Len(rs)])

\* results after the loop body appended r for msg_map[idx]; sorted after the last device
Appended(r) ==
    IF idx = Len(msg_map) THEN SortByProb(Append(results, r)) ELSE Append(results, r)

\* position of the call after the loop body ran for msg_map[idx]
NextPc == IF idx = Len(msg_map) THEN "done" ELSE "classify"


(***************************************************************************)
(* Inputs                                                                  *)
(***************************************************************************)

\* an entry as the topology builder exports it: parent_ids lists the uplinks and
\* parent_id is the first of them
InfoWith(p, ps, md) == [is_dict |-> TRUE, parent_id |-> p, parent_ids |-> ps, metadata |-> md]

Info(p, md) == InfoWith(p, IF p = None THEN <<>> ELSE <<p>>, md)

Meta(psu, rt) == [psu_count |-> psu, redundancy_type |-> rt, location |-> ""]

\* metadata with the free-text field location filled in
MetaAt(psu, rt, loc) == [psu_count |-> psu, redundancy_type |-> rt, location |-> loc]

\* topologies of analyze: five devices in dict order, CORE first
MetaOfDevice(d) ==
    IF d = "A1" THEN Meta(IntPsu(2), "")
    ELSE IF d = "A2" THEN Meta(NoPsu, "psu")
    ELSE EmptyMeta

TopoIds == <<"CORE", "A1", "A2", "A3", "A4">>

ParentChoices(d) ==
    IF d = "CORE" THEN {None}
    ELSE IF d = "A2" THEN {"CORE"}
    ELSE IF d = "A4" THEN {None, "CORE", "A1"}
    ELSE {None, "CORE"}

Topologies ==
    {[i \in 1..Len(TopoIds) |-> [id |-> TopoIds[i], info |-> Info(f[i], MetaOfDevice(TopoIds[i]))]] :
        f \in {g \in [1..Len(TopoIds) -> {None, "CORE", "A1"}] :
                 \A i \in 1..Len(TopoIds) : g[i] \in ParentChoices(TopoIds[i])}}

\* alert batches of analyze
AlarmDevices == {"CORE", "A1", "A2", "A3", "A4"}

Alarm(d, m) == [device_id |-> d, message |-> m]

AllAlarms == {Alarm(d, m) : d \in AlarmDevices, m \in AlarmMessages}

AlarmBatches == UNION {[1..n -> AllAlarms] : n \in 0..MaxAlarms}

\* the two-level topology: G over S, C1, C2 and S over X, Y
ChainTopology ==
    <<[id |-> "G", info |-> Info(None, EmptyMeta)],
      [id |-> "S", info |-> Info("G", EmptyMeta)],
      [id |-> "C1", info |-> Info("G", Meta(IntPsu(2), ""))],
      [id |-> "C2", info |-> Info("G", EmptyMeta)],
      [id |-> "X", info |-> Info("S", EmptyMeta)],
      [id |-> "Y", info |-> Info("S", EmptyMeta)]>>

\* alert batches of analyze on the two-level topology: alarms of the leaves
ChainAlarms == {Alarm(d, m) : d \in {"C1", "C2", "X", "Y"}, m \in ChainMessages}

ChainBatches == UNION {[1..n -> ChainAlarms] : n \in 0..MaxChainAlarms}

\* the topology of the direct calls of analyze_redundancy_depth: one device per
\* way of declaring (or not declaring) the number of power supplies
DepthTopology ==
    <<[id |-> "R2", info |-> Info(None, Meta(IntPsu(2), ""))],
      [id |-> "R1", info |-> Info(None, Meta(IntPsu(1), "PSU"))],
      [id |-> "RS", info |-> Info(None, Meta(TextPsu("2"), ""))],
      [id |-> "RT", info |-> Info(None, Meta(TextPsu("two"), "psu"))],
      [id |-> "RN",
       info |-> Info(None, MetaAt(NoPsu, "", "rack 4 snmp-server community public"))],
      [id |-> "RM", info |-> NotAMapping]>>

\* device ids of the direct calls; "ghost" is not in the topology
DepthDevices == {"R2", "R1", "RS", "RT", "RN", "RM", "ghost"}

(***************************************************************************)
(* analyze as a process: AnalyzeBegin runs lines 219-250, each Classify    *)
(* action runs the loop body for msg_map[idx] (one of its exits), and the  *)
(* one for the last device also runs the sort and the return.              *)
(* depth_call and depth_result hold the latest call of                     *)
(* analyze_redundancy_depth and the value it returned (the loop-local      *)
(* analysis, which a later graph branch leaves as it is).                  *)
(***************************************************************************)

\* lines 300-323: the call of analyze_redundancy_depth returned analysis
RecordDepth(device_id, messages, path, ext, analysis) ==
    /\ depth_call' = [device_id |-> device_id, alerts |-> messages, path |-> path, ext |-> ext]
    /\ depth_result' = analysis
    /\ results' = Appended(DepthResult(device_id, messages, analysis))

Call(device_id, alerts, path, ext) ==
    [device_id |-> device_id, alerts |-> alerts, path |-> path, ext |-> ext]

NoCall == Call(None, <<>>, None, NoRequest)

\* _sanitize_text is not called directly
NoSanitizeCall == raw_text = "" /\ safe_text = ""

\* analyze is called once, the environment is left open
NoRerun == answers = <<>> /\ configure_failures = 0 /\ first_results = <<>>

\* no page is open
NoPage ==
    /\ devices = <<>>
    /\ connections = <<>>
    /\ scenario_key = None
    /\ problems = <<>>
    /\ reordered = <<>>
    /\ rca = None
    /\ rca_reordered = None
    /\ root_host = None
    /\ unavailable_hosts = {}
    /\ queue = <<>>
    /\ visited = {}
    /\ downstream = <<>>
    /\ impacts = <<>>

InitEngine(topo) ==
    /\ topology = topo
    /\ children_map = BuildChildren(topo, 1, <<>>)
    /\ api_configured = FALSE
    /\ pc = "idle"
    /\ alarms = <<>>
    /\ msg_map = <<>>
    /\ silent_suspects = <<>>
    /\ idx = 0
    /\ results = <<>>
    /\ requests = <<>>
    /\ depth_call = NoCall
    /\ depth_result = Inconclusive

Init ==
    /\ \E topo \in Topologies : InitEngine(topo)
    /\ NoSanitizeCall
    /\ NoRerun
    /\ NoPage
    /\ api_key \in BOOLEAN

RECURSIVE SyntheticAlarms(_, _)
\* one synthetic alarm per suspect, from suspect i on
SyntheticAlarms(sus, i) ==
    IF i > Len(sus) THEN <<>>
    ELSE <<[device_id |-> sus[i].id, message |-> SyntheticMessage]>> \o SyntheticAlarms(sus, i + 1)

\* variant of the first part of analyze that appends the synthetic alerts to the
\* alarm list of the caller
BeginAppendingToAlarms(batches) ==
    /\ pc = "idle"
    /\ \E a \in batches :
         IF a = <<>>
         THEN /\ alarms' = a
              /\ results' = <<NoAlertsResult>>
              /\ pc' = "done"
              /\ UNCHANGED <<msg_map, silent_suspects, idx>>
         ELSE LET grouped == GroupAlarms(a, 1, <<>>)
                  suspects == _detect_silent_failures(grouped)
              IN  /\ alarms' = a \o SyntheticAlarms(suspects, 1)
                  /\ silent_suspects' = suspects
                  /\ msg_map' = InjectSuspects(suspects, 1, grouped)
                  /\ idx' = 1
                  /\ results' = <<>>
                  /\ pc' = "classify"
    /\ UNCHANGED <<pageVars, rerunVars, raw_text, safe_text, topology, children_map, api_key, api_configured,
                   requests, depth_call, depth_result>>

\* lines 219-250 of analyze, for a batch of the given set
Begin(batches) ==
    /\ pc = "idle"
    /\ \E a \in batches :
         /\ alarms' = a
         /\ IF a = <<>>
            THEN /\ results' = <<NoAlertsResult>>
                 /\ pc' = "done"
                 /\ UNCHANGED <<msg_map, silent_suspects, idx>>
            ELSE LET grouped == GroupAlarms(a, 1, <<>>)
                     suspects == _detect_silent_failures(grouped)
                 IN  /\ silent_suspects' = suspects
                     /\ msg_map' = InjectSuspects(suspects, 1, grouped)
                     /\ idx' = 1
                     /\ results' = <<>>
                     /\ pc' = "classify"
    /\ UNCHANGED <<pageVars, rerunVars, raw_text, safe_text, topology, children_map, api_key, api_configured, requests,
                   depth_call, depth_result>>

AnalyzeBegin == Begin(AlarmBatches)

\* msg_map[idx] is resolved by a graph branch (lines 255-298)
ClassifyGraph ==
    /\ pc = "classify"
    /\ LET device_id == msg_map[idx].id
           messages == msg_map[idx].list
       IN  /\ GraphBranch(device_id, messages) # "none"
           /\ results' = Appended(GraphResult(device_id, messages))
    /\ idx' = idx + 1
    /\ pc' = NextPc
    /\ UNCHANGED <<pageVars, rerunVars, raw_text, safe_text, topology, children_map, api_key, api_configured, alarms, msg_map,
                   silent_suspects, requests, depth_call, depth_result>>

\* msg_map[idx] reaches analyze_redundancy_depth and a local rule returns
ClassifyLocal ==
    /\ pc = "classify"
    /\ LET device_id == msg_map[idx].id
           messages == msg_map[idx].list
       IN  /\ GraphBranch(device_id, messages) = "none"
           /\ LocalRules(device_id, messages) # Inconclusive
           /\ RecordDepth(device_id, messages, "local", NoRequest,
                          analyze_redundancy_depth(device_id, messages, FALSE, NoRequest))
    /\ idx' = idx + 1
    /\ pc' = NextPc
    /\ UNCHANGED <<pageVars, rerunVars, raw_text, safe_text, topology, children_map, api_key, api_configured, alarms, msg_map,
                   silent_suspects, requests>>

\* no local rule returns and _ensure_api_configured() is False
ClassifyNotConfigured ==
    /\ pc = "classify"
    /\ LET device_id == msg_map[idx].id
           messages == msg_map[idx].list
       IN  /\ GraphBranch(device_id, messages) = "none"
           /\ LocalRules(device_id, messages) = Inconclusive
           /\ \E e \in EnsureOutcomes :
                /\ ~e.ok
                /\ api_configured' = e.configured
           /\ RecordDepth(device_id, messages, "not_configured", NoRequest,
                          analyze_redundancy_depth(device_id, messages, FALSE, NoRequest))
    /\ idx' = idx + 1
    /\ pc' = NextPc
    /\ UNCHANGED <<pageVars, rerunVars, raw_text, safe_text, topology, children_map, api_key, alarms, msg_map,
                   silent_suspects, requests>>

\* variant of ClassifyExternal that sends the request a second time when it failed
ClassifyExternalRetrying ==
    /\ pc = "classify"
    /\ LET device_id == msg_map[idx].id
           messages == msg_map[idx].list
       IN  /\ GraphBranch(device_id, messages) = "none"
           /\ LocalRules(device_id, messages) = Inconclusive
           /\ \E e \in EnsureOutcomes :
                /\ e.ok
                /\ api_configured' = e.configured
           /\ \E ext \in ExtOutcomes :
                /\ requests' =
                     IF ext.kind = "raise"
                     THEN requests \o <<PromptParts(device_id, messages),
                                        PromptParts(device_id, messages)>>
                     ELSE Append(requests, PromptParts(device_id, messages))
                /\ RecordDepth(device_id, messages, "external", ext,
                               analyze_redundancy_depth(device_id, messages, TRUE, ext))
    /\ idx' = idx + 1
    /\ pc' = NextPc
    /\ UNCHANGED <<pageVars, rerunVars, raw_text, safe_text, topology, children_map, api_key, alarms, msg_map, silent_suspects>>

\* no local rule returns, the client is configured and the request is made
ClassifyExternal ==
    /\ pc = "classify"
    /\ LET device_id == msg_map[idx].id
           messages == msg_map[idx].list
       IN  /\ GraphBranch(device_id, messages) = "none"
           /\ LocalRules(device_id, messages) = Inconclusive
           /\ \E e \in EnsureOutcomes :
                /\ e.ok
                /\ api_configured' = e.configured
           /\ requests' = Append(requests, PromptParts(device_id, messages))
           /\ \E ext \in ExtOutcomes :
                RecordDepth(device_id, messages, "external", ext,
                            analyze_redundancy_depth(device_id, messages, TRUE, ext))
    /\ idx' = idx + 1
    /\ pc' = NextPc
    /\ UNCHANGED <<pageVars, rerunVars, raw_text, safe_text, topology, children_map, api_key, alarms, msg_map, silent_suspects>>

Next ==
    \/ AnalyzeBegin
    \/ ClassifyGraph
    \/ ClassifyLocal
    \/ ClassifyNotConfigured
    \/ ClassifyExternal

Spec == Init /\ [][Next]_vars

(***************************************************************************)
(* analyze on the two-level topology                                       *)
(***************************************************************************)

InitChain ==
    /\ InitEngine(ChainTopology)
    /\ NoSanitizeCall
    /\ NoRerun
    /\ NoPage
    /\ api_key \in BOOLEAN

AnalyzeChainBegin == Begin(ChainBatches)

NextChain ==
    \/ AnalyzeChainBegin
    \/ ClassifyGraph
    \/ ClassifyLocal
    \/ ClassifyNotConfigured
    \/ ClassifyExternal

SpecChain == InitChain /\ [][NextChain]_vars

(***************************************************************************)
(* Construction and analyze on topologies with malformed or multi-parent   *)
(* entries and alarms on a device the topology does not hold.  The         *)
(* behaviour starts in __init__, after self.topology is assigned.          *)
(***************************************************************************)

InputIds == <<"CORE", "A1", "A2">>

\* the entries a device can have: well formed, without parent field, not a mapping,
\* parent_id holding a list, and the multi-parent entry of the topology builder
InputEntries(d) ==
    IF d = "CORE" THEN {Info(None, EmptyMeta)}
    ELSE IF d = "A1" THEN {Info("CORE", EmptyMeta), NotAMapping}
    ELSE {Info("CORE", EmptyMeta), Info(None, EmptyMeta), NotAMapping,
          InfoWith("['CORE', 'A1']", <<"CORE", "A1">>, EmptyMeta),
          InfoWith("[]", <<>>, EmptyMeta),
          InfoWith("CORE", <<"CORE", "A1">>, EmptyMeta)}

InputTopologies ==
    {[i \in 1..Len(InputIds) |-> [id |-> InputIds[i], info |-> f[i]]] :
        f \in {g \in [1..Len(InputIds) -> UNION {InputEntries(InputIds[i]) : i \in 1..Len(InputIds)}] :
                 \A i \in 1..Len(InputIds) : g[i] \in InputEntries(InputIds[i])}}

\* alarms on the devices of the topology and on "ghost", which it does not hold
InputAlarms ==
    {Alarm(d, m) : d \in {"CORE", "A1", "A2", "ghost"},
                   m \in {"Connection Lost", "Host unreachable", "PSU Fail"}}

InputBatches == UNION {[1..n -> InputAlarms] : n \in 0..MaxAlarms}

\* positions of the entries at which line 60 raises TypeError
RaisingEntries(topo) ==
    {i \in 1..Len(topo) : Truthy(ParentOfInfo(topo[i].info))
                          /\ ~Hashable(ParentOfInfo(topo[i].info))}

InitInput ==
    /\ topology \in InputTopologies
    /\ children_map = <<>>
    /\ api_configured = FALSE
    /\ pc = "new"
    /\ alarms = <<>>
    /\ msg_map = <<>>
    /\ silent_suspects = <<>>
    /\ idx = 0
    /\ results = <<>>
    /\ requests = <<>>
    /\ depth_call = NoCall
    /\ depth_result = Inconclusive
    /\ NoSanitizeCall
    /\ NoRerun
    /\ NoPage
    /\ api_key \in BOOLEAN

\* lines 46-60 of __init__: the loop that fills children_map; setdefault raises at
\* the first entry whose parent is truthy and not hashable
Construct ==
    /\ pc = "new"
    /\ IF RaisingEntries(topology) = {}
       THEN /\ children_map' = BuildChildren(topology, 1, <<>>)
            /\ pc' = "idle"
       ELSE /\ children_map' =
                 BuildChildren(SubSeq(topology, 1, First(RaisingEntries(topology)) - 1), 1, <<>>)
            /\ pc' = "raised"
    /\ UNCHANGED <<pageVars, rerunVars, raw_text, safe_text, topology, api_key, api_configured, alarms, msg_map,
                   silent_suspects, idx, results, requests, depth_call, depth_result>>

AnalyzeInputBegin == Begin(InputBatches)

NextInput ==
    \/ Construct
    \/ AnalyzeInputBegin
    \/ ClassifyGraph
    \/ ClassifyLocal
    \/ ClassifyNotConfigured
    \/ ClassifyExternal

SpecInput == InitInput /\ [][NextInput]_vars

(***************************************************************************)
(* Direct calls of analyze_redundancy_depth(device_id, alerts): one call   *)
(* per behaviour, by the exit it takes.                                    *)
(***************************************************************************)

InitDepth ==
    /\ InitEngine(DepthTopology)
    /\ NoSanitizeCall
    /\ NoRerun
    /\ NoPage
    /\ api_key \in BOOLEAN

\* the call returns at lines 343-376: no alerts, or a local rule
DepthLocal ==
    /\ pc = "idle"
    /\ \E device_id \in DepthDevices, alerts \in DepthAlertLists :
         /\ LocalRules(device_id, alerts) # Inconclusive
         /\ depth_call' = Call(device_id, alerts, "local", NoRequest)
         /\ depth_result' = analyze_redundancy_depth(device_id, alerts, FALSE, NoRequest)
    /\ pc' = "done"
    /\ UNCHANGED <<pageVars, rerunVars, raw_text, safe_text, topology, children_map, api_key, api_configured, alarms, msg_map,
                   silent_suspects, idx, results, requests>>

\* the call returns at line 380: _ensure_api_configured() is False
DepthNotConfigured ==
    /\ pc = "idle"
    /\ \E device_id \in DepthDevices, alerts \in DepthAlertLists :
         /\ LocalRules(device_id, alerts) = Inconclusive
         /\ \E e \in EnsureOutcomes :
              /\ ~e.ok
              /\ api_configured' = e.configured
         /\ depth_call' = Call(device_id, alerts, "not_configured", NoRequest)
         /\ depth_result' = analyze_redundancy_depth(device_id, alerts, FALSE, NoRequest)
    /\ pc' = "done"
    /\ UNCHANGED <<pageVars, rerunVars, raw_text, safe_text, topology, children_map, api_key, alarms, msg_map,
                   silent_suspects, idx, results, requests>>

\* the call returns from the try block of lines 413-434
DepthExternal ==
    /\ pc = "idle"
    /\ \E device_id \in DepthDevices, alerts \in DepthAlertLists :
         /\ LocalRules(device_id, alerts) = Inconclusive
         /\ \E e \in EnsureOutcomes :
              /\ e.ok
              /\ api_configured' = e.configured
         /\ requests' = Append(requests, PromptParts(device_id, alerts))
         /\ \E ext \in ExtOutcomes :
              /\ depth_call' = Call(device_id, alerts, "external", ext)
              /\ depth_result' = analyze_redundancy_depth(device_id, alerts, TRUE, ext)
    /\ pc' = "done"
    /\ UNCHANGED <<pageVars, rerunVars, raw_text, safe_text, topology, children_map, api_key, alarms, msg_map,
                   silent_suspects, idx, results>>

NextDepth ==
    \/ DepthLocal
    \/ DepthNotConfigured
    \/ DepthExternal

SpecDepth == InitDepth /\ [][NextDepth]_vars

(***************************************************************************)
(* Direct calls of _sanitize_text(text): a first call, then a call on the  *)
(* text the first one returned.                                            *)
(***************************************************************************)

InitSanitize ==
    /\ InitEngine(<<>>)
    /\ api_key = FALSE
    /\ raw_text \in SanitizerTexts
    /\ safe_text = ""
    /\ NoRerun
    /\ NoPage

\* safe_text = self._sanitize_text(raw_text)
SanitizeCall ==
    /\ pc = "idle"
    /\ safe_text' = _sanitize_text(raw_text)
    /\ pc' = "once"
    /\ UNCHANGED <<pageVars, rerunVars, raw_text, topology, children_map, api_key, api_configured, alarms, msg_map,
                   silent_suspects, idx, results, requests, depth_call, depth_result>>

\* the returned text is passed to _sanitize_text again
SanitizeAgain ==
    /\ pc = "once"
    /\ raw_text' = safe_text
    /\ safe_text' = _sanitize_text(safe_text)
    /\ pc' = "twice"
    /\ UNCHANGED <<pageVars, rerunVars, topology, children_map, api_key, api_configured, alarms, msg_map,
                   silent_suspects, idx, results, requests, depth_call, depth_result>>

NextSanitize ==
    \/ SanitizeCall
    \/ SanitizeAgain

SpecSanitize == InitSanitize /\ [][NextSanitize]_vars

(***************************************************************************)
(* Properties of analyze_redundancy_depth (behaviours of SpecDepth)        *)
(***************************************************************************)

\* a direct call has returned
DepthReturned == pc = "done" /\ depth_call.device_id # None

\* some message of the list contains "Device Down" or "Thermal Shutdown"
Hazard(alerts) ==
    \E i \in 1..Len(alerts) :
        Contains(alerts[i], "Device Down") \/ Contains(alerts[i], "Thermal Shutdown")

\* the text reports a single power-supply failure (text in lower case)
ReportsSinglePsuFailure(text_l) ==
    \/ (Contains(text_l, "power supply") /\ Contains(text_l, "failed"))
    \/ (Contains(text_l, "psu") /\ Contains(text_l, "fail"))

\* what the properties ask about an alert list, aggregated being the sanitised
\* messages joined by a space and aggregated_l its lower case
FactsOf(alerts, aggregated, aggregated_l) ==
    [hazard |-> Hazard(alerts),
     single_psu |-> ReportsSinglePsuFailure(aggregated_l),
     dual |-> Contains(aggregated_l, "dual"),
     down_or_thermal |-> Contains(aggregated, "Device Down")
                           \/ Contains(aggregated, "Thermal Shutdown")]

FactsOfAggregated(alerts, aggregated) == FactsOf(alerts, aggregated, Lower(aggregated))

\* FactsOf on every alert list of the direct calls, computed once
AlertFacts ==
    [a \in {x : x \in DepthAlertLists} |-> FactsOfAggregated(a, Join(" ", SafeAlerts(a)))]

\* the device declares at least two power supplies in its inventory
DeclaresTwoPsu(device_id) ==
    LET v == _get_metadata(device_id).psu_count IN
    \/ (v.kind = "int" /\ v.val >= 2)
    \/ (v.kind = "text" /\ AllDigits(v.text) /\ DecimalValue(v.text) >= 2)

\* C1: whenever a message of a non-empty alert list contains "Device Down" or
\* "Thermal Shutdown", analyze_redundancy_depth returns CRITICAL, for every device,
\* inventory and state of the external service.
StopSignatureIsCritical ==
    (DepthReturned /\ AlertFacts[depth_call.alerts].hazard) => depth_result.status = CRITICAL

\* C3 as stated: a device that declares psu_count >= 2 and an aggregated text that
\* reports a single power-supply failure without "dual" give WARNING.
RedundantPsuIsWarning ==
    (/\ DepthReturned
     /\ DeclaresTwoPsu(depth_call.device_id)
     /\ AlertFacts[depth_call.alerts].single_psu
     /\ ~AlertFacts[depth_call.alerts].dual)
    => depth_result.status = WARNING

\* C3: a device that declares psu_count >= 2 and a sanitised aggregated text that
\* reports a single power-supply failure, without "dual" and without "Device Down"
\* or "Thermal Shutdown", give WARNING with impact Hardware/Redundancy.
RedundantPsuIsWarningUnlessStopped ==
    (/\ DepthReturned
     /\ DeclaresTwoPsu(depth_call.device_id)
     /\ AlertFacts[depth_call.alerts].single_psu
     /\ ~AlertFacts[depth_call.alerts].dual
     /\ ~AlertFacts[depth_call.alerts].down_or_thermal)
    => (depth_result.status = WARNING /\ depth_result.impact_type = "Hardware/Redundancy")

\* a single PSU failure in a list of two messages on the device that declares "2"
RedundantPsuWarningReached ==
    /\ DepthReturned
    /\ depth_call.device_id = "RS"
    /\ depth_call.alerts = <<"PSU Fail", "Link flap">>
    /\ depth_result.status = WARNING
    /\ depth_result.impact_type = "Hardware/Redundancy"

\* the statuses a response may carry
ValidStatuses == {"NORMAL", "WARNING", "CRITICAL"}

\* the response is exactly a {status, reason, impact_type} object with a valid status
WellFormed(ext) ==
    /\ ext.kind = "object"
    /\ ext.status \in ValidStatuses
    /\ ext.reason # None
    /\ ext.impact_type # None

\* the external step of the returned call failed
ExternalStepFailed ==
    \/ depth_call.path = "not_configured"
    \/ (depth_call.path = "external" /\ ~WellFormed(depth_call.ext))

\* C9: whenever the external step fails (missing credentials, configuration error,
\* exception of the request, response not well formed), analyze_redundancy_depth
\* returns WARNING with impact UNKNOWN or AI_ERROR, and never CRITICAL.
FailedFallbackIsWarning ==
    (DepthReturned /\ ExternalStepFailed)
    => (depth_result.status = WARNING /\ depth_result.impact_type \in {"UNKNOWN", "AI_ERROR"})

\* every text a prompt of the model carries (an enumerated set)
PromptTexts ==
    {t : t \in {"", "psu", "PSU", "rack 4 snmp-server community public"}
               \cup {SafeConfigMemo[d] : d \in KnownDevices}
               \cup UNION {{SafeAlertsMemo[a][i] : i \in 1..Len(a)} : a \in KnownAlertLists}}

\* _sanitize_text leaves the text as it is: nothing in it is left to redact
Redacted == [t \in PromptTexts |-> _sanitize_text(t) = t]

\* C14: every text that reaches generate_content has passed through _sanitize_text:
\* the metadata, the configuration text and the alerts a prompt is built from hold
\* nothing that _sanitize_text would still redact.
PromptIsSanitized ==
    \A k \in 1..Len(requests) :
        /\ Redacted[requests[k].metadata.location]
        /\ Redacted[requests[k].metadata.redundancy_type]
        /\ Redacted[requests[k].safe_config]
        /\ \A i \in 1..Len(requests[k].safe_alerts) : Redacted[requests[k].safe_alerts[i]]

\* the aggregated text of every alert list of the direct calls, in lower case
LowerAggregated == [a \in {x : x \in DepthAlertLists} |-> Lower(Joined(a))]

\* status and impact type that the local rules give the device for the alert list
LocalVerdict(device_id, alerts) ==
    <<LocalRules(device_id, alerts).status, LocalRules(device_id, alerts).impact_type>>

\* C18: the local rules match case-insensitively: two alert lists whose aggregated
\* texts differ only in letter case get the same status and impact type from the
\* local rules, for the same device.
LocalRulesIgnoreCase ==
    DepthReturned =>
        \A b \in DepthAlertLists :
            LowerAggregated[b] = LowerAggregated[depth_call.alerts]
            => LocalVerdict(depth_call.device_id, b)
               = LocalVerdict(depth_call.device_id, depth_call.alerts)

\* what each local rule finds in an aggregated text
RuleFactsIn(joined, jl) ==
    [stop |-> StopCondition(joined), psu |-> PsuSingleFail(jl), fan |-> FanFail(jl),
     overheat |-> OverheatHint(jl), memory |-> MemSymptom(jl), oom |-> OomHint(jl)]

RuleFactsInJoined(joined) == RuleFactsIn(joined, Lower(joined))

\* RuleFactsIn on every alert list of the direct calls, computed once
RuleFacts == [a \in {x : x \in DepthAlertLists} |-> RuleFactsInJoined(Joined(a))]

\* the returned analysis has this status and one of these impact types
Verdict(status, impact_types) ==
    depth_result.status = status /\ depth_result.impact_type \in impact_types

\* C20: the local rules are evaluated in the order stop condition, single PSU
\* failure, fan failure, memory pressure, and the first that matches decides alone:
\* fan failure gives WARNING, or CRITICAL with an overheat/thermal keyword; memory
\* high/leak gives WARNING, or CRITICAL with an out-of-memory/kernel-panic keyword;
\* a text that an earlier rule matches is never classified by a later one.
FirstMatchingRuleDecides ==
    (DepthReturned /\ depth_call.alerts # <<>>) =>
        IF RuleFacts[depth_call.alerts].stop
        THEN Verdict(CRITICAL, {"Hardware/Physical"})
        ELSE IF RuleFacts[depth_call.alerts].psu
        THEN IF _get_psu_count(depth_call.device_id, 1) >= 2
             THEN Verdict(WARNING, {"Hardware/Redundancy"})
             ELSE Verdict(CRITICAL, {"Hardware/Physical"})
        ELSE IF RuleFacts[depth_call.alerts].fan
        THEN IF RuleFacts[depth_call.alerts].overheat
             THEN Verdict(CRITICAL, {"Hardware/Physical"})
             ELSE Verdict(WARNING, {"Hardware/Degraded"})
        ELSE IF RuleFacts[depth_call.alerts].memory
        THEN IF RuleFacts[depth_call.alerts].oom
             THEN Verdict(CRITICAL, {"Software/Resource"})
             ELSE Verdict(WARNING, {"Software/Resource"})
        ELSE depth_call.path # "local"

\* fan failure together with memory leak and out of memory: the fan rule decided
FanBeforeMemoryReached ==
    /\ DepthReturned
    /\ RuleFacts[depth_call.alerts].fan
    /\ RuleFacts[depth_call.alerts].memory
    /\ RuleFacts[depth_call.alerts].oom
    /\ ~RuleFacts[depth_call.alerts].overheat
    /\ Verdict(WARNING, {"Hardware/Degraded"})

(***************************************************************************)
(* Properties of analyze (behaviours of Spec and SpecChain)                *)
(***************************************************************************)

\* analyze has returned for a non-empty batch
Returned == pc = "done" /\ alarms # <<>>

\* the devices that have an alarm in the batch
AlarmedDevices == {alarms[i].device_id : i \in 1..Len(alarms)}

\* the messages of the alarms of a device
RawMessages(d) == {alarms[i].message : i \in {j \in 1..Len(alarms) : alarms[j].device_id = d}}

\* the children of a device in the topology
ChildrenSet(p) ==
    {topology[i].id : i \in {j \in 1..Len(topology) : topology[j].info.parent_id = p}}

\* the devices that are the parent of some device
Parents == {topology[i].info.parent_id : i \in 1..Len(topology)} \ {None, ""}

\* positions of the results of a device
ResultsFor(d) == {i \in 1..Len(results) : results[i].id = d}

\* every result of the device satisfies P, and there is one
EmittedAs(d, P(_)) == ResultsFor(d) # {} /\ \A i \in ResultsFor(d) : P(results[i])

\* the message carries a total-loss signature
TotalLoss(m) ==
    Contains(m, "Device Down") \/ Contains(m, "Dual Loss") \/ Contains(m, "Thermal Shutdown")

TotalLossMemo == [m \in KnownMessages |-> TotalLoss(m)]

\* C2: a device whose alerts carry a total-loss signature is emitted as Tier 1,
\* never as a Tier 3 symptom, for every topology and batch.
TotalLossIsTier1 ==
    Returned =>
        \A d \in AlarmedDevices :
            (\E m \in RawMessages(d) : TotalLossMemo[m])
            => EmittedAs(d, LAMBDA r : r.tier = 1)

\* C4: analyze returns exactly one result per device id of the alert map after the
\* injection of the synthetic alerts: none is missing, none appears twice.
OneResultPerDevice ==
    Returned =>
        /\ Ids(msg_map) = AlarmedDevices \cup Ids(silent_suspects)
        /\ \A d \in AlarmedDevices \cup Ids(silent_suspects) : Cardinality(ResultsFor(d)) = 1
        /\ \A i \in 1..Len(results) : results[i].id \in AlarmedDevices \cup Ids(silent_suspects)
        /\ Len(results) = Cardinality(AlarmedDevices \cup Ids(silent_suspects))

\* two alarmed children and their injected parent: three results
OneResultPerDeviceReached ==
    /\ Returned
    /\ silent_suspects # <<>>
    /\ Len(alarms) = 2
    /\ Len(results) = 3

\* the device has an alarm with a connection-loss message
ReportsConnectionLoss(c) == \E m \in RawMessages(c) : ConnectionLossMemo[m]

\* the children of p that report a connection loss
AffectedChildren(p) == {c \in ChildrenSet(p) : ReportsConnectionLoss(c)}

\* the evidence kept for suspect p
EvidenceOf(p) == ById(silent_suspects, p)

\* C5: a parent without an alert of its own is a silent suspect iff at least 2 of
\* its children report a connection loss and they are at least half of its
\* children; the evidence holds that count, the total and the ratio; a device with
\* an alert of its own is never a suspect.
SilentSuspectIffThreshold ==
    (pc # "idle" /\ alarms # <<>>) =>
        /\ \A p \in Parents \ AlarmedDevices :
             /\ HasId(silent_suspects, p)
                <=> (/\ Cardinality(AffectedChildren(p)) >= 2
                     /\ 2 * Cardinality(AffectedChildren(p)) >= Cardinality(ChildrenSet(p)))
             /\ HasId(silent_suspects, p)
                => (/\ EvidenceOf(p).evidence_count = Cardinality(AffectedChildren(p))
                    /\ EvidenceOf(p).total_children = Cardinality(ChildrenSet(p))
                    /\ EvidenceOf(p).ratio = <<Cardinality(AffectedChildren(p)),
                                               Cardinality(ChildrenSet(p))>>)
        /\ \A k \in 1..Len(silent_suspects) :
             silent_suspects[k].id \in Parents \ AlarmedDevices

\* 2 of 4 children affected: the parent is a suspect, with ratio 2/4
HalfOfFourReached ==
    /\ pc = "done"
    /\ HasId(silent_suspects, "CORE")
    /\ EvidenceOf("CORE").evidence_count = 2
    /\ EvidenceOf("CORE").total_children = 4
    /\ EvidenceOf("CORE").ratio = <<2, 4>>

\* C6: every silent suspect is emitted as Tier 1 with confidence 0.8, its evidence
\* report and the investigation checklist, and never as a Tier 3 symptom, also when
\* its own parent is a suspect.
SuspectsAreTier1 ==
    Returned =>
        \A k \in 1..Len(silent_suspects) :
            EmittedAs(silent_suspects[k].id,
                      LAMBDA r : /\ r.tier = 1
                                 /\ r.prob = 8
                                 /\ r.analyst_report = silent_suspects[k].report
                                 /\ r.auto_investigation = AutoInvestigation)

\* the reason of a symptom under suspect p
SymptomReason(p) ==
    "Downstream symptom under suspected silent failure parent (parent=" \o p \o ")."

\* C7: for every silent suspect, each child with a connection-loss message is
\* emitted as Tier 3 with confidence 0.4 and a reason naming the parent, and the
\* parent itself is emitted as Tier 1.
SymptomsUnderTier1Parent ==
    Returned =>
        \A k \in 1..Len(silent_suspects) :
            /\ EmittedAs(silent_suspects[k].id, LAMBDA r : r.tier = 1)
            /\ \A c \in AffectedChildren(silent_suspects[k].id) :
                 EmittedAs(c, LAMBDA r : /\ r.tier = 3
                                         /\ r.prob = 4
                                         /\ r.reason = SymptomReason(silent_suspects[k].id))

\* the device has an alarm whose message contains "unreachable"
ReportsUnreachable(d) == \E m \in RawMessages(d) : UnreachableMemo[m]

\* the parent of the device has an alarm in the batch
ParentHasAlarm(d) == Truthy(_get_parent_id(d)) /\ _get_parent_id(d) \in AlarmedDevices

\* the reason of a cascade under parent p
CascadeReason(p) == "Downstream unreachable due to upstream alarm (parent=" \o p \o ")."

\* C8: a device with an "unreachable" alert whose parent has an alert in the batch
\* is emitted as Tier 3 with confidence 0.2 and a reason that names the parent.
CascadeIsTier3 ==
    Returned =>
        \A d \in AlarmedDevices :
            (ReportsUnreachable(d) /\ ParentHasAlarm(d))
            => EmittedAs(d, LAMBDA r : /\ r.tier = 3
                                       /\ r.prob = 2
                                       /\ r.reason = CascadeReason(_get_parent_id(d)))

\* A2 unreachable under the alarmed CORE
CascadeReached ==
    /\ Returned
    /\ ReportsUnreachable("A2")
    /\ ParentHasAlarm("A2")
    /\ EmittedAs("A2", LAMBDA r : r.tier = 3 /\ r.prob = 2)

\* tier and confidence as the fixed function of the status
FixedByStatus(status, r) ==
    /\ status = CRITICAL => (r.tier = 1 /\ r.prob = 9)
    /\ status = WARNING => (r.tier = 2 /\ r.prob = 7)
    /\ status = NORMAL => (r.tier = 3 /\ r.prob = 3)

\* the analysis has impact UNKNOWN and a reason that mentions the missing API key
MentionsMissingKey(a) ==
    a.impact_type = "UNKNOWN" /\ Contains(a.reason, "API key not configured")

MentionsMissingKeyMemo == [a \in KnownAnalyses |-> MentionsMissingKey(a)]

ReturnedEmpty == pc = "done" /\ alarms = <<>>

FirstAlarm(d) == CHOOSE i \in 1..Len(alarms) :
                     /\ alarms[i].device_id = d
                     /\ \A j \in 1..(i - 1) : alarms[j].device_id # d

\* position of the device in the alert map
MapPos(d) == CHOOSE i \in 1..Len(msg_map) : msg_map[i].id = d

\* the alert map lists the devices by first appearance in the batch, the suspects
\* after them
MapInInsertionOrder ==
    /\ \A d, e \in AlarmedDevices : FirstAlarm(d) < FirstAlarm(e) => MapPos(d) < MapPos(e)
    /\ \A d \in AlarmedDevices : \A s \in Ids(silent_suspects) : MapPos(d) < MapPos(s)

\* C12: the list returned by analyze is ordered by confidence descending, and results
\* of equal confidence keep the order in which their devices entered the alert map:
\* first appearance in the batch, the synthetic suspects after the real devices.
SortedByConfidenceStable ==
    Returned =>
        /\ MapInInsertionOrder
        /\ \A i, j \in 1..Len(results) :
               i < j => \/ results[i].prob > results[j].prob
                        \/ /\ results[i].prob = results[j].prob
                           /\ MapPos(results[i].id) < MapPos(results[j].id)

\* the suspect, inserted last, is returned first and its two children, of equal
\* confidence, follow in the order of the batch
SuspectSortedFirstReached ==
    /\ Returned
    /\ Len(results) = 3
    /\ results[1].id \in Ids(silent_suspects)
    /\ MapPos(results[1].id) = 3
    /\ results[2].prob = results[3].prob
    /\ results[2].id = alarms[1].device_id
    /\ results[3].id = alarms[2].device_id
    /\ results[2].id = "A4" /\ results[3].id = "A3"


(***************************************************************************)
(* Properties of _sanitize_text (behaviours of SpecSanitize)               *)
(***************************************************************************)

\* C13: _sanitize_text is idempotent: for every text over the credential keywords,
\* type digits, quoted strings and plain tokens, sanitising the sanitised text
\* returns it unchanged.
SanitizeIsIdempotent == pc = "twice" => safe_text = raw_text

\* a text where the passes 2 and 3 both redacted, sanitised twice
SanitizedTwiceReached ==
    /\ pc = "twice"
    /\ raw_text = "username bob secret 5 ********"
    /\ safe_text = raw_text


\* C17: analyze mutates no shared input: every step of a call leaves the topology and
\* children_map as they are, the steps after the first leave the alarm list as it
\* is, and after the first step the alarm list holds no synthetic alert and no alarm
\* of a suspect, which are in the call-local msg_map only.
AnalyzeMutatesNoInput ==
    [][/\ topology' = topology
       /\ children_map' = children_map
       /\ pc # "idle" => alarms' = alarms
       /\ pc = "idle" =>
            /\ \A i \in 1..Len(alarms') :
                   /\ alarms'[i].message # SyntheticMessage
                   /\ ~HasId(silent_suspects', alarms'[i].device_id)
            /\ \A i \in 1..Len(silent_suspects') : HasId(msg_map', silent_suspects'[i].id)]_vars

\* analyze returned with a suspect that is in msg_map and has no alarm in the batch
SuspectOnlyInMapReached ==
    /\ Returned
    /\ \E i \in 1..Len(silent_suspects) :
           /\ ById(msg_map, silent_suspects[i].id).list = <<SyntheticMessage>>
           /\ silent_suspects[i].id \notin AlarmedDevices
    /\ children_map = BuildChildren(topology, 1, <<>>)


\* some local rule matches the aggregated text: stop condition, single PSU failure,
\* fan failure or memory pressure
AnyLocalRuleIn(joined, joined_lower) ==
    \/ StopCondition(joined)
    \/ PsuSingleFail(joined_lower)
    \/ FanFail(joined_lower)
    \/ MemSymptom(joined_lower)

AnyLocalRuleInJoined(joined) == AnyLocalRuleIn(joined, Lower(joined))

\* AnyLocalRuleIn on every alert list of the model, computed once
LocalRuleMatches == [a \in KnownAlertLists |-> AnyLocalRuleInJoined(Joined(a))]

\* the result types of the graph branches and of the local rules
GraphTypes == {"Network/ConnectionLost", "Network/Unreachable", "Network/SilentFailure"}
LocalTypes == {"Hardware/Physical", "Hardware/Redundancy", "Hardware/Degraded", "Software/Resource"}

\* the devices for which a request was sent to the external service
Requested == {requests[k].device_id : k \in 1..Len(requests)}

\* C19: the external service is consulted only when the local rules are inconclusive:
\* a request is sent for a device only if no local rule matches its aggregated text
\* and no graph branch resolved it; a device that reaches the local rules with a
\* text one of them matches gets the result of the rule and no request.
ExternalOnlyWhenInconclusive ==
    /\ \A d \in Requested :
           /\ ~LocalRuleMatches[ById(msg_map, d).list]
           /\ EmittedAs(d, LAMBDA r : r.type \notin GraphTypes)
    /\ \A i \in 1..Len(results) :
           (/\ HasId(msg_map, results[i].id)
            /\ results[i].type \notin GraphTypes
            /\ LocalRuleMatches[ById(msg_map, results[i].id).list])
           => (results[i].type \in LocalTypes /\ results[i].id \notin Requested)

\* one device answered by a local rule without request, another by the service
LocalAndExternalReached ==
    /\ Returned
    /\ Len(requests) = 1
    /\ \E i \in 1..Len(results) :
           /\ results[i].type \in LocalTypes
           /\ results[i].id \notin Requested
           /\ LocalRuleMatches[ById(msg_map, results[i].id).list]


(***************************************************************************)
(* Properties of construction and analyze on malformed input (behaviours   *)
(* of SpecInput)                                                           *)
(***************************************************************************)

\* the alarmed devices the topology does not hold
UnknownAlarmed == {d \in AlarmedDevices : ~HasId(topology, d)}

\* the result is a cascade suppression or a symptom of a silent suspect
SuppressedByGraph(r) == r.type \in {"Network/Unreachable", "Network/ConnectionLost"}

\* C15: for every topology with malformed entries (not a mapping, no parent field,
\* parent field holding a list) and every batch with alarms on unknown devices, the
\* construction and analyze never raise, and an alarm on an unknown device is
\* neither cascade-suppressed nor classified as a symptom of a silent suspect.
InputErrorsNeverAbort ==
    /\ pc # "raised"
    /\ Returned => \A d \in UnknownAlarmed : EmittedAs(d, LAMBDA r : ~SuppressedByGraph(r))

\* the construction has returned
Constructed == pc \notin {"new", "raised"}

\* the parents an entry declares: its parent_id and the members of its parent_ids
DeclaredParents(info) ==
    IF ~info.is_dict THEN {}
    ELSE ({info.parent_id} \cup {info.parent_ids[k] : k \in 1..Len(info.parent_ids)}) \ {None}

\* the devices children_map lists under p
ListedChildren(p) == {ChildrenOf(p)[k] : k \in 1..Len(ChildrenOf(p))}

\* C16: the parent/child structure built from a topology reflects every declared
\* parent: d is listed among the children of p if and only if p is d's parent_id or
\* a member of d's parent_ids.
ChildrenReflectEveryParent ==
    Constructed =>
        \A i, j \in 1..Len(topology) :
            topology[i].id \in ListedChildren(topology[j].id)
            <=> topology[j].id \in DeclaredParents(topology[i].info)

(***************************************************************************)
(* Single power-supply failure and the declared number of power supplies   *)
(* (behaviours of SpecDepth)                                               *)
(***************************************************************************)

\* the number of power supplies the topology declares for the device: the inventory
\* value when it is an integer or a decimal numeral, else 2 for redundancy type PSU
\* (in any letter case), else 1; 1 also for an unknown device or a malformed entry
DeclaredPsuCount(device_id) ==
    IF \A i \in 1..Len(topology) : topology[i].id # device_id THEN 1
    ELSE LET info == ById(topology, device_id).info
             inv == info.metadata.psu_count IN
         IF ~info.is_dict THEN 1
         ELSE IF inv.kind = "int" THEN inv.val
         ELSE IF inv.kind = "text" /\ AllDigits(inv.text) THEN DecimalValue(inv.text)
         ELSE IF Lower(info.metadata.redundancy_type) = "psu" THEN 2
         ELSE 1

\* the call returned CRITICAL with impact Hardware/Physical
CriticalPhysical ==
    depth_result.status = CRITICAL /\ depth_result.impact_type = "Hardware/Physical"

\* C21 as stated: when the aggregated text reports a single power-supply failure
\* (without "dual"), the result is CRITICAL with impact Hardware/Physical exactly
\* when the declared number of power supplies is below 2.
SinglePsuCriticalIffBelowTwo ==
    (/\ DepthReturned
     /\ AlertFacts[depth_call.alerts].single_psu
     /\ ~AlertFacts[depth_call.alerts].dual)
    => (CriticalPhysical <=> DeclaredPsuCount(depth_call.device_id) < 2)

\* C21: when the sanitised aggregated text reports a single power-supply failure,
\* without "dual" and without "Device Down" or "Thermal Shutdown", the result is
\* CRITICAL with impact Hardware/Physical exactly when the declared number of power
\* supplies is below 2, and WARNING otherwise.
SinglePsuCriticalIffBelowTwoUnlessStopped ==
    (/\ DepthReturned
     /\ AlertFacts[depth_call.alerts].single_psu
     /\ ~AlertFacts[depth_call.alerts].dual
     /\ ~AlertFacts[depth_call.alerts].down_or_thermal)
    => /\ CriticalPhysical <=> DeclaredPsuCount(depth_call.device_id) < 2
       /\ depth_result.status \in {CRITICAL, WARNING}

\* a single PSU failure on the device whose topology entry is no mapping
MalformedEntryPsuCriticalReached ==
    /\ DepthReturned
    /\ depth_call.device_id = "RM"
    /\ depth_call.alerts = <<"Power Supply 1 failed">>
    /\ CriticalPhysical

\* the call returned what the single PSU failure rule returns for a redundant device
SinglePsuWarning ==
    \/ (depth_result.status = WARNING /\ depth_result.impact_type = "Hardware/Redundancy")
    \/ StartsAt(depth_result.reason, 1, "Single PSU failure")

RequestsFor(d) == {i \in 1..Len(requests) : requests[i].device_id = d}

\* the devices whose request failed: their result is the one of the except block
FailedDevices == {results[i].id : i \in {j \in 1..Len(results) : results[j].type = "AI_ERROR"}}

\* the devices of the alert map
MapDevices == {msg_map[i].id : i \in 1..Len(msg_map)}

\* C23: within one call of analyze at most one request is sent per device; a device
\* whose request failed has exactly that one request and its result is the WARNING
\* result of the failure; and when the call has returned every device of the alert
\* map has its result, also after the request of another device has failed.
NoAutomaticRetry ==
    /\ \A d \in KnownDevices : Cardinality(RequestsFor(d)) <= 1
    /\ \A d \in FailedDevices :
         /\ Cardinality(RequestsFor(d)) = 1
         /\ \A i \in ResultsFor(d) : results[i].tier = 2 /\ results[i].prob = 7
    /\ Len(requests) <= Len(results)
    /\ (Returned /\ FailedDevices # {}) =>
          \A d \in MapDevices : Cardinality(ResultsFor(d)) = 1

\* the request of the first device failed and the second device was then classified
\* by the answer to its own request
ClassifiedAfterFailureReached ==
    /\ Returned
    /\ Len(requests) = 2
    /\ requests[1].device_id \in FailedDevices
    /\ requests[2].device_id \notin FailedDevices
    /\ \E i \in ResultsFor(requests[2].device_id) : results[i].type = "OUTAGE"

(***************************************************************************)
(* analyze called twice, on fresh engines over the same topology and in    *)
(* the same environment, with the devices of the batch in another order:   *)
(* the order of msg_map is the order in which the devices first appear in  *)
(* the alarm list.  The environment is fixed for the behaviour: answers is *)
(* what the external service returns for each device, and the first        *)
(* configure_failures calls of genai.configure on an engine raise.         *)
(***************************************************************************)

MaxConfigureFailures == 1

RerunTopology ==
    <<[id |-> "CORE", info |-> Info(None, EmptyMeta)],
      [id |-> "A1", info |-> Info("CORE", Meta(IntPsu(2), ""))],
      [id |-> "A3", info |-> Info(None, EmptyMeta)]>>

RerunDevices == {"CORE", "A1", "A3"}

RerunAlarms ==
    {Alarm(d, m) : d \in RerunDevices, m \in {"Connection Lost", "Host unreachable", "PSU Fail"}}

RerunBatches == UNION {[1..n -> RerunAlarms] : n \in 0..MaxAlarms}

RerunAnswers == {Raised("deadline exceeded"), Object("CRITICAL", "Outage", "OUTAGE")}

InitRerun ==
    /\ InitEngine(RerunTopology)
    /\ NoSanitizeCall
    /\ api_key \in BOOLEAN
    /\ answers \in [RerunDevices -> RerunAnswers]
    /\ configure_failures \in 0..MaxConfigureFailures
    /\ first_results = <<>>
    /\ NoPage

\* the entries of a sequence
Range(seq) == {seq[i] : i \in 1..Len(seq)}

\* calls of genai.configure that raised on this engine: one per result of line 380
\* when the key is set
FailedConfigures ==
    Cardinality({i \in 1..Len(results) : results[i].reason = NotConfiguredResult.reason})

\* lines 219-250; the second call gets the alarms of the first with the devices in
\* any order, the messages of each device in the same order
AnalyzeRerunBegin ==
    /\ Begin(RerunBatches)
    /\ first_results # <<>> => (Len(alarms') = Len(alarms) /\ Range(msg_map') = Range(msg_map))

AnalyzeRerunGraph == ClassifyGraph

AnalyzeRerunLocal == ClassifyLocal

\* line 380: no key, or this call of genai.configure is one of those that raise
AnalyzeRerunNotConfigured ==
    /\ api_key => FailedConfigures < configure_failures
    /\ ClassifyNotConfigured

\* lines 382-434: the client is configured and the service answers for the device
AnalyzeRerunExternal ==
    /\ api_configured \/ FailedConfigures >= configure_failures
    /\ ClassifyExternal
    /\ depth_call'.ext = answers[depth_call'.device_id]

\* the caller keeps the returned list and constructs a new engine on the topology
ConstructAgain ==
    /\ pc = "done"
    /\ first_results = <<>>
    /\ first_results' = results
    /\ api_configured' = FALSE
    /\ pc' = "idle"
    /\ UNCHANGED <<pageVars, answers, configure_failures, raw_text, safe_text, topology, children_map,
                   api_key, alarms, msg_map, silent_suspects, idx, results, requests,
                   depth_call, depth_result>>

NextRerun ==
    \/ AnalyzeRerunBegin
    \/ AnalyzeRerunGraph
    \/ AnalyzeRerunLocal
    \/ AnalyzeRerunNotConfigured
    \/ AnalyzeRerunExternal
    \/ ConstructAgain

SpecRerun == InitRerun /\ [][NextRerun]_vars

\* both calls have returned
BothReturned == pc = "done" /\ first_results # <<>>

\* C24: the result of a device depends only on its own messages, its topology
\* entry, the alarmed and suspect sets and the external answer for that device:
\* classifying the devices of a batch in another order, in the same environment,
\* yields the same set of results.
OrderIndependentResults == BothReturned => Range(results) = Range(first_results)

(***************************************************************************)
(* The pages: connection lists and the breadth-first helpers of            *)
(* pages/3_rca_analyzer.py.  A dict of lists is a sequence of [id, list]   *)
(* in insertion order.                                                     *)
(***************************************************************************)

Uplink(child, parent) == [from |-> child, to |-> parent, type |-> "uplink"]

PeerLink(a, b) == [from |-> a, to |-> b, type |-> "peer"]

\* d.get(k, []) on a dict of lists
GetList(d, k) == IF HasId(d, k) THEN ById(d, k).list ELSE <<>>

RECURSIVE ParentToChildren(_, _, _)
\* the loop of _get_all_downstream_hosts over the connections, from connection i on
ParentToChildren(conns, i, acc) ==
    IF i > Len(conns) THEN acc
    ELSE ParentToChildren(conns, i + 1,
                          IF conns[i].type = "uplink"
                          THEN SetDefaultAppend(acc, conns[i].to, conns[i].from)
                          ELSE acc)

RECURSIVE ChildToParents(_, _, _)
\* the loop of perform_rca_simple over the connections, from connection i on
ChildToParents(conns, i, acc) ==
    IF i > Len(conns) THEN acc
    ELSE ChildToParents(conns, i + 1,
                        IF conns[i].type = "uplink"
                        THEN SetDefaultAppend(acc, conns[i].from, conns[i].to)
                        ELSE acc)

RECURSIVE InvertParents(_, _, _, _)
\* the loops of get_all_impacts over child_to_parents.items(), from parent j of
\* entry i on
InvertParents(child_to_parents, i, j, acc) ==
    IF i > Len(child_to_parents) THEN acc
    ELSE IF j > Len(child_to_parents[i].list) THEN InvertParents(child_to_parents, i + 1, 1, acc)
    ELSE InvertParents(child_to_parents, i, j + 1,
                       SetDefaultAppend(acc, child_to_parents[i].list[j], child_to_parents[i].id))

\* variant of DownstreamIteration without the two tests on visited
DownstreamIterationRevisiting(q, vis, out, parent_to_children) ==
    <<Tail(q) \o GetList(parent_to_children, Head(q)), vis \cup {Head(q)},
      out \o GetList(parent_to_children, Head(q))>>

\* one iteration of the while loop of _get_all_downstream_hosts: the new queue,
\* visited and downstream
DownstreamIteration(q, vis, out, parent_to_children) ==
    IF Head(q) \in vis THEN <<Tail(q), vis, out>>
    ELSE <<Tail(q) \o SelectSeq(GetList(parent_to_children, Head(q)),
                                LAMBDA child : child \notin vis \cup {Head(q)}),
           vis \cup {Head(q)},
           out \o SelectSeq(GetList(parent_to_children, Head(q)),
                            LAMBDA child : child \notin vis \cup {Head(q)})>>

\* one iteration of the while loop of get_all_impacts: the new queue, visited and
\* impacts
ImpactsIteration(q, vis, out, parent_to_children, problem_hosts) ==
    IF Head(q) \in vis THEN <<Tail(q), vis, out>>
    ELSE <<Tail(q) \o SelectSeq(GetList(parent_to_children, Head(q)),
                                LAMBDA child : child \in problem_hosts
                                               /\ child \notin vis \cup {Head(q)}),
           vis \cup {Head(q)},
           out \o SelectSeq(GetList(parent_to_children, Head(q)),
                            LAMBDA child : child \in problem_hosts
                                           /\ child \notin vis \cup {Head(q)})>>

RECURSIVE ImpactsLoop(_, _, _)
\* the while loop of get_all_impacts from the state st = <<queue, visited, impacts>>
ImpactsLoop(st, parent_to_children, problem_hosts) ==
    IF st[1] = <<>> THEN st[3]
    ELSE ImpactsLoop(ImpactsIteration(st[1], st[2], st[3], parent_to_children, problem_hosts),
                     parent_to_children, problem_hosts)

get_all_impacts(root, problem_hosts, child_to_parents) ==
    ImpactsLoop(<<<<root>>, {}, <<>>>>, InvertParents(child_to_parents, 1, 1, <<>>), problem_hosts)

(***************************************************************************)
(* Calls on topologies with cycles: either an engine is constructed and    *)
(* analyze runs, or one of the two helpers runs from root "R".  The        *)
(* connection lists hold at most MaxUplinks of the candidate connections,  *)
(* which include a device that is its own parent, parent cycles, diamonds  *)
(* and a peer connection.                                                  *)
(***************************************************************************)

MaxUplinks == 4

\* the traversal loops run while the queue holds at most this many entries
MaxQueue == 6

TraverseHosts == <<"R", "B", "C", "D">>

CandidateConnections ==
    <<Uplink("B", "R"), Uplink("C", "R"), PeerLink("B", "C"), Uplink("D", "B"), Uplink("D", "C"),
      Uplink("R", "D"), Uplink("R", "R"), Uplink("B", "C"), Uplink("C", "B"), Uplink("R", "B"),
      Uplink("D", "R"), Uplink("B", "D")>>

\* the connection lists: candidates in their order, at most MaxUplinks of them
ConnectionLists ==
    {SelectSeq(CandidateConnections, LAMBDA c : c \in chosen) :
        chosen \in {S \in SUBSET {CandidateConnections[i] : i \in 1..Len(CandidateConnections)} :
                      Cardinality(S) <= MaxUplinks}}

\* parent_to_children of _get_all_downstream_hosts for every connection list,
\* computed once
DownstreamChildrenMemo ==
    [conns \in {x : x \in ConnectionLists} |-> ParentToChildren(conns, 1, <<>>)]

\* parent_to_children of get_all_impacts for every connection list, computed once
ImpactsChildrenMemo ==
    [conns \in {x : x \in ConnectionLists} |->
        InvertParents(ChildToParents(conns, 1, <<>>), 1, 1, <<>>)]

\* engine topologies with a device that is its own parent and with parent cycles
CyclicTopologies ==
    {<<[id |-> "CORE", info |-> Info("CORE", EmptyMeta)],
       [id |-> "A1", info |-> Info("CORE", EmptyMeta)],
       [id |-> "A2", info |-> Info("CORE", EmptyMeta)]>>,
     <<[id |-> "CORE", info |-> Info("A1", EmptyMeta)],
       [id |-> "A1", info |-> Info("CORE", EmptyMeta)],
       [id |-> "A2", info |-> Info("A1", EmptyMeta)]>>,
     <<[id |-> "CORE", info |-> Info("A2", EmptyMeta)],
       [id |-> "A1", info |-> Info("CORE", EmptyMeta)],
       [id |-> "A2", info |-> Info("A1", EmptyMeta)]>>}

InitTraverse ==
    /\ api_configured = FALSE
    /\ alarms = <<>>
    /\ msg_map = <<>>
    /\ silent_suspects = <<>>
    /\ idx = 0
    /\ results = <<>>
    /\ requests = <<>>
    /\ depth_call = NoCall
    /\ depth_result = Inconclusive
    /\ children_map = <<>>
    /\ NoSanitizeCall
    /\ NoRerun
    /\ scenario_key = None
    /\ problems = <<>>
    /\ reordered = <<>>
    /\ rca = None
    /\ rca_reordered = None
    /\ queue = <<>>
    /\ visited = {}
    /\ downstream = <<>>
    /\ impacts = <<>>
    /\ \/ /\ pc = "new"
          /\ topology \in CyclicTopologies
          /\ api_key \in BOOLEAN
          /\ devices = <<>>
          /\ connections = <<>>
          /\ root_host = None
          /\ unavailable_hosts = {}
       \/ /\ pc = "load"
          /\ topology = <<>>
          /\ api_key = FALSE
          /\ devices = <<>>
          /\ connections = <<>>
          /\ root_host = None
          /\ unavailable_hosts = {}

\* the parts of the state a traversal leaves alone
engineVars ==
    <<topology, children_map, api_key, api_configured, alarms, msg_map, silent_suspects, idx,
      results, requests, depth_call, depth_result, raw_text, safe_text>>

\* load_topology() returned a topology and the caller chose the arguments of a helper
LoadConnections ==
    /\ pc = "load"
    /\ devices' = TraverseHosts
    /\ connections' \in ConnectionLists
    /\ root_host' = "R"
    /\ unavailable_hosts' \in SUBSET {"B", "C", "D"}
    /\ pc' = "page"
    /\ UNCHANGED <<engineVars, rerunVars, scenario_key, problems, reordered, rca, rca_reordered,
                   queue, visited, downstream, impacts>>

\* _get_all_downstream_hosts(root_host) up to the while loop
DownstreamBegin ==
    /\ pc = "page"
    /\ unavailable_hosts = {}
    /\ queue' = <<root_host>>
    /\ visited' = {}
    /\ downstream' = <<>>
    /\ pc' = "downstream"
    /\ UNCHANGED <<engineVars, rerunVars, devices, connections, scenario_key, problems,
                   reordered, rca, rca_reordered, root_host, unavailable_hosts, impacts>>

\* one iteration of the while loop; the call returns when the queue is empty
DownstreamStep ==
    /\ pc = "downstream"
    /\ queue # <<>>
    /\ LET st == DownstreamIteration(queue, visited, downstream,
                                     DownstreamChildrenMemo[connections])
       IN  /\ Len(st[1]) <= MaxQueue /\ Len(st[3]) <= MaxQueue
           /\ queue' = st[1]
           /\ visited' = st[2]
           /\ downstream' = st[3]
           /\ pc' = IF st[1] = <<>> THEN "done" ELSE "downstream"
    /\ UNCHANGED <<engineVars, rerunVars, devices, connections, scenario_key, problems,
                   reordered, rca, rca_reordered, root_host, unavailable_hosts, impacts>>

\* get_all_impacts(root_host, unavailable_hosts, child_to_parents) up to the while
\* loop, child_to_parents being what perform_rca_simple builds from the connections
ImpactsBegin ==
    /\ pc = "page"
    /\ queue' = <<root_host>>
    /\ visited' = {}
    /\ impacts' = <<>>
    /\ pc' = "impacts"
    /\ UNCHANGED <<engineVars, rerunVars, devices, connections, scenario_key, problems,
                   reordered, rca, rca_reordered, root_host, unavailable_hosts, downstream>>

\* one iteration of the while loop; the call returns when the queue is empty
ImpactsStep ==
    /\ pc = "impacts"
    /\ queue # <<>>
    /\ LET st == ImpactsIteration(queue, visited, impacts, ImpactsChildrenMemo[connections],
                                  unavailable_hosts)
       IN  /\ Len(st[1]) <= MaxQueue /\ Len(st[3]) <= MaxQueue
           /\ queue' = st[1]
           /\ visited' = st[2]
           /\ impacts' = st[3]
           /\ pc' = IF st[1] = <<>> THEN "done" ELSE "impacts"
    /\ UNCHANGED <<engineVars, rerunVars, devices, connections, scenario_key, problems,
                   reordered, rca, rca_reordered, root_host, unavailable_hosts, downstream>>

\* alert batches of analyze on the cyclic topologies: none, one or two alarms
CyclicAlarms ==
    {Alarm(d, m) : d \in {"CORE", "A1", "A2"},
                   m \in {"Connection Lost", "Host unreachable", "PSU Fail"}}

CyclicBatches ==
    {<<>>} \cup {<<a>> : a \in CyclicAlarms} \cup {<<a, b>> : a \in CyclicAlarms, b \in CyclicAlarms}

AnalyzeCyclicBegin == Begin(CyclicBatches)

NextTraverse ==
    \/ Construct
    \/ AnalyzeCyclicBegin
    \/ ClassifyGraph
    \/ ClassifyLocal
    \/ ClassifyNotConfigured
    \/ ClassifyExternal
    \/ LoadConnections
    \/ DownstreamBegin
    \/ DownstreamStep
    \/ ImpactsBegin
    \/ ImpactsStep

\* every call runs on: a step that can be taken is taken
SpecTraverse == InitTraverse /\ [][NextTraverse]_vars /\ WF_vars(NextTraverse)

\* C25: graph processing terminates on cyclic input: on topologies with parent
\* cycles and with a device that is its own parent, engine construction followed by
\* analyze returns, and _get_all_downstream_hosts and get_all_impacts return on
\* connection lists with cyclic uplinks.
CyclicInputTerminates == <>(pc = "done")

\* the uplinks R-B-D-R form a cycle and _get_all_downstream_hosts has returned,
\* having expanded the three hosts
CycleTraversedReached ==
    /\ pc = "done"
    /\ connections = <<Uplink("B", "R"), Uplink("D", "B"), Uplink("R", "D")>>
    /\ visited = {"R", "B", "D"}
    /\ downstream = <<"B", "D">>


(***************************************************************************)
(* What get_all_impacts returns, against the failed hosts below the root.  *)
(***************************************************************************)

\* the children, over the uplink connections, of the hosts in S
UplinkChildren(conns, S) ==
    {conns[i].from : i \in {j \in 1..Len(conns) : conns[j].type = "uplink" /\ conns[j].to \in S}}

RECURSIVE Below(_, _, _)
\* the hosts reached from S by n or fewer further steps down the uplinks
Below(conns, S, n) ==
    IF n = 0 THEN S ELSE Below(conns, S \cup UplinkChildren(conns, S), n - 1)

\* the strict descendants of root over the uplink connections
StrictDescendants(conns, root) ==
    Below(conns, UplinkChildren(conns, {root}), Len(conns)) \ {root}

\* get_all_impacts has returned
ImpactsReturned == pc = "done" /\ devices # <<>> /\ downstream = <<>>

\* C28: when get_all_impacts returns, its list holds each unavailable strict
\* descendant of root_host exactly once and no other host
ImpactsAreFailedDescendants ==
    ImpactsReturned =>
        /\ Range(impacts) = StrictDescendants(connections, root_host) \cap unavailable_hosts
        /\ Cardinality(Range(impacts)) = Len(impacts)

\* the diamond R-B-D, R-C-D with B, C and D unavailable: D is listed twice
DiamondImpactsReached ==
    /\ ImpactsReturned
    /\ connections = <<Uplink("B", "R"), Uplink("C", "R"), Uplink("D", "B"), Uplink("D", "C")>>
    /\ unavailable_hosts = {"B", "C", "D"}
    /\ impacts = <<"B", "C", "D", "D">>

\* D is unavailable below the healthy B: D is not listed
HealthyBetweenReached ==
    /\ ImpactsReturned
    /\ connections = <<Uplink("B", "R"), Uplink("D", "B")>>
    /\ unavailable_hosts = {"D"}
    /\ impacts = <<>>

(***************************************************************************)
(* The topology builder page: st.session_state.devices (its keys, in       *)
(* insertion order) and st.session_state.connections, edited by the add    *)
(* device form, the delete buttons and the connection dialog.              *)
(***************************************************************************)

BuilderIds == {"A", "B", "C"}

RECURSIVE RelaxUplinks(_, _, _)
\* the loop of calculate_layers over the uplinks, from connection i on
RelaxUplinks(conns, i, layers) ==
    IF i > Len(conns) THEN layers
    ELSE RelaxUplinks(conns, i + 1,
            IF /\ conns[i].type = "uplink"
               /\ conns[i].to \in DOMAIN layers
               /\ conns[i].from \in DOMAIN layers
               /\ layers[conns[i].from] < layers[conns[i].to] + 1
            THEN [layers EXCEPT ![conns[i].from] = layers[conns[i].to] + 1]
            ELSE layers)

RECURSIVE EqualisePeers(_, _, _)
\* the loop of calculate_layers over the peers, from connection i on
EqualisePeers(conns, i, layers) ==
    IF i > Len(conns) THEN layers
    ELSE EqualisePeers(conns, i + 1,
            IF /\ conns[i].type # "uplink"
               /\ conns[i].from \in DOMAIN layers
               /\ conns[i].to \in DOMAIN layers
            THEN LET max_layer == IF layers[conns[i].from] >= layers[conns[i].to]
                                  THEN layers[conns[i].from] ELSE layers[conns[i].to]
                 IN  [layers EXCEPT ![conns[i].from] = max_layer, ![conns[i].to] = max_layer]
            ELSE layers)

RECURSIVE LayerRounds(_, _, _)
\* the rounds of calculate_layers: n rounds are left, a round without a change ends
\* the loop
LayerRounds(conns, layers, n) ==
    IF n = 0 THEN layers
    ELSE LET after == EqualisePeers(conns, 1, RelaxUplinks(conns, 1, layers))
         IN  IF after = layers THEN layers ELSE LayerRounds(conns, after, n - 1)

calculate_layers(devs, conns) ==
    LET connected_nodes == {conns[i].from : i \in 1..Len(conns)} \cup {conns[i].to : i \in 1..Len(conns)}
        layers == LayerRounds(conns, [d \in Range(devs) |-> 1], Len(devs) + 2)
    IN  [d \in Range(devs) |-> IF d \notin connected_nodes THEN 0 ELSE layers[d]]

RECURSIVE get_ancestors(_, _, _, _)
\* the while loop of get_ancestors from the state q, vis, ancestors
get_ancestors(q, vis, ancestors, parent_map) ==
    IF q = <<>> THEN ancestors
    ELSE IF Head(q) \in vis THEN get_ancestors(Tail(q), vis, ancestors, parent_map)
    ELSE get_ancestors(Tail(q) \o GetList(parent_map, Head(q)), vis \cup {Head(q)},
                       ancestors \cup Range(GetList(parent_map, Head(q))), parent_map)

check_lineage(dev_a, dev_b, conns) ==
    LET parent_map == ChildToParents(conns, 1, <<>>)
    IN  \/ dev_b \in get_ancestors(<<dev_a>>, {}, {}, parent_map)
        \/ dev_a \in get_ancestors(<<dev_b>>, {}, {}, parent_map)

RECURSIVE CycleSearch(_, _, _, _)
\* the while loop of check_cycle_for_uplink from the state q, vis
CycleSearch(q, vis, child, parent_map) ==
    IF q = <<>> THEN FALSE
    ELSE IF Head(q) = child THEN TRUE
    ELSE IF Head(q) \in vis THEN CycleSearch(Tail(q), vis, child, parent_map)
    ELSE CycleSearch(Tail(q) \o GetList(parent_map, Head(q)), vis \cup {Head(q)}, child, parent_map)

\* a cycle check that looks at the parent and its direct parents only
CheckCycleDirectParentsOnly(parent, child, conns) ==
    child \in {parent} \cup Range(GetList(ChildToParents(conns, 1, <<>>), parent))

check_cycle_for_uplink(parent, child, conns) ==
    CycleSearch(<<parent>>, {}, child, ChildToParents(conns, 1, <<>>))

\* the devices connected with source_id, in either direction
ConnectedTargets(source_id, conns) ==
    {conns[i].to : i \in {j \in 1..Len(conns) : conns[j].from = source_id}}
        \cup {conns[i].from : i \in {j \in 1..Len(conns) : conns[j].to = source_id}}

\* the candidates the connection dialog offers
Candidates(source_id, mode, devs, conns) ==
    {d \in Range(devs) :
        /\ d # source_id
        /\ d \notin ConnectedTargets(source_id, conns)
        /\ mode = "peer" =>
              /\ ~check_lineage(source_id, d, conns)
              /\ calculate_layers(devs, conns)[d] = calculate_layers(devs, conns)[source_id]
        /\ mode = "uplink" => ~check_cycle_for_uplink(source_id, d, conns)}

\* the checks of the create button: TRUE when an error message is shown
CreateRefused(source_id, mode, target_id, conns) ==
    \/ target_id \in ConnectedTargets(source_id, conns)
    \/ mode = "peer" /\ check_lineage(source_id, target_id, conns)
    \/ mode = "uplink" /\ check_cycle_for_uplink(source_id, target_id, conns)

InitBuilder ==
    /\ pc = "builder"
    /\ topology = <<>>
    /\ api_key = FALSE
    /\ api_configured = FALSE
    /\ alarms = <<>>
    /\ msg_map = <<>>
    /\ silent_suspects = <<>>
    /\ idx = 0
    /\ results = <<>>
    /\ requests = <<>>
    /\ depth_call = NoCall
    /\ depth_result = Inconclusive
    /\ children_map = <<>>
    /\ NoSanitizeCall
    /\ NoRerun
    /\ NoPage

builderRest ==
    <<pc, engineVars, rerunVars, scenario_key, problems, reordered, rca, rca_reordered,
      root_host, unavailable_hosts, queue, visited, downstream, impacts>>

\* the add button of render_add_device
AddDevice ==
    /\ pc = "builder"
    /\ \E new_id \in BuilderIds :
          /\ new_id \notin Range(devices)
          /\ devices' = Append(devices, new_id)
    /\ UNCHANGED <<connections, builderRest>>

\* the delete button of render_device_list with one device selected
DeleteDevice ==
    /\ pc = "builder"
    /\ \E d_id \in Range(devices) :
          /\ devices' = SelectSeq(devices, LAMBDA d : d # d_id)
          /\ connections' = SelectSeq(connections, LAMBDA c : c.from # d_id /\ c.to # d_id)
    /\ UNCHANGED builderRest

\* the delete button of a row of the connection list
DeleteConnection ==
    /\ pc = "builder"
    /\ \E i \in 1..Len(connections) :
          connections' = [j \in 1..(Len(connections) - 1) |->
                             IF j < i THEN connections[j] ELSE connections[j + 1]]
    /\ UNCHANGED <<devices, builderRest>>

\* connection_dialog(source_id, mode) with a candidate chosen and the create
\* button pressed
CreateConnection ==
    /\ pc = "builder"
    /\ \E source_id \in Range(devices), mode \in {"uplink", "peer"} :
          \E target_id \in Candidates(source_id, mode, devices, connections) :
             connections' =
                 IF CreateRefused(source_id, mode, target_id, connections) THEN connections
                 ELSE IF mode = "uplink" THEN Append(connections, Uplink(target_id, source_id))
                 ELSE Append(connections, PeerLink(source_id, target_id))
    /\ UNCHANGED <<devices, builderRest>>

NextBuilder == AddDevice \/ DeleteDevice \/ DeleteConnection \/ CreateConnection

SpecBuilder == InitBuilder /\ [][NextBuilder]_vars

\* the devices below S over the uplinks of the builder
DescendantsOf(S) == Below(connections, UplinkChildren(connections, S), Len(connections))

\* C26: the uplink connections of the builder contain no directed cycle: no
\* device is its own ancestor
NoUplinkCycle == \A d \in Range(devices) : d \notin DescendantsOf({d})

\* the chain A, B under A, C under B has been built, and the dialog of C does not
\* offer A as a child
CycleCandidateRejectedReached ==
    /\ connections = <<Uplink("B", "A"), Uplink("C", "B")>>
    /\ check_cycle_for_uplink("C", "A", connections)
    /\ "A" \notin Candidates("C", "uplink", devices, connections)

\* C30: no peer connection joins two devices in an ancestor/descendant relation
NoPeerInLineage ==
    \A i \in 1..Len(connections) :
        connections[i].type = "peer" =>
            /\ connections[i].from \notin DescendantsOf({connections[i].to})
            /\ connections[i].to \notin DescendantsOf({connections[i].from})

\* A and B are peers, C is below A and B has been put below C
PeerBelowPeerReached ==
    connections = <<PeerLink("A", "B"), Uplink("C", "A"), Uplink("B", "C")>>

(***************************************************************************)
(* The RCA page on the built-in demo data: MockZabbixAPI.call generates    *)
(* the problems of a scenario and shuffles them, perform_rca_simple        *)
(* classifies the hosts.  A problem is its host, name and severity.  The   *)
(* three result lists follow the iteration order of a Python set of        *)
(* strings, which differs from run to run: they are modelled as sets.      *)
(***************************************************************************)

DEMO_HOSTS ==
    {"Core-Router01", "Core-Router02", "Dist-SW01", "Dist-SW02", "Dist-SW03",
     "Access-SW01", "Access-SW02", "Access-SW03", "Access-SW04", "Access-SW05", "Access-SW06",
     "Server01", "Server02", "Server03", "Server04", "Server05", "Server06", "FW01"}

DEMO_CONNECTIONS ==
    <<Uplink("Dist-SW01", "Core-Router01"), Uplink("Dist-SW02", "Core-Router01"),
      Uplink("Dist-SW02", "Core-Router02"), Uplink("Dist-SW03", "Core-Router02"),
      Uplink("Access-SW01", "Dist-SW01"), Uplink("Access-SW02", "Dist-SW01"),
      Uplink("Access-SW03", "Dist-SW02"), Uplink("Access-SW04", "Dist-SW02"),
      Uplink("Access-SW05", "Dist-SW03"), Uplink("Access-SW06", "Dist-SW03"),
      Uplink("Server01", "Access-SW01"), Uplink("Server02", "Access-SW02"),
      Uplink("Server03", "Access-SW03"), Uplink("Server04", "Access-SW04"),
      Uplink("Server05", "Access-SW05"), Uplink("Server06", "Access-SW06"),
      Uplink("FW01", "Core-Router01")>>

Problem(h, n, sev) == [host |-> h, name |-> n, severity |-> sev]

ScenarioKeys == {"simple", "multi_root", "cascade", "noisy"}

DEMO_SCENARIOS ==
    [key \in ScenarioKeys |->
        CASE key = "simple" ->
               [root_causes |-> <<"Core-Router01">>, additional_alerts |-> <<>>]
          [] key = "multi_root" ->
               [root_causes |-> <<"Core-Router01", "Dist-SW03">>, additional_alerts |-> <<>>]
          [] key = "cascade" ->
               [root_causes |-> <<"Core-Router01", "Dist-SW02", "Access-SW06">>,
                additional_alerts |->
                  <<Problem("FW01", "FW01: High CPU utilization (92%)", 3),
                    Problem("Server02", "Server02: Disk space low (85%)", 2),
                    Problem("Core-Router02", "Core-Router02: BGP neighbor flapping", 3)>>]
          [] key = "noisy" ->
               [root_causes |-> <<"Dist-SW01">>,
                additional_alerts |->
                  <<Problem("Core-Router01", "Core-Router01: Interface GigabitEthernet0/1 - High bandwidth utilization", 2),
                    Problem("Core-Router02", "Core-Router02: NTP synchronization lost", 1),
                    Problem("Dist-SW02", "Dist-SW02: Fan speed warning", 2),
                    Problem("Dist-SW03", "Dist-SW03: Power supply redundancy lost", 3),
                    Problem("FW01", "FW01: SSL certificate expiring in 7 days", 1),
                    Problem("FW01", "FW01: Session count above threshold", 2),
                    Problem("Server03", "Server03: Memory utilization high (88%)", 3),
                    Problem("Server05", "Server05: Scheduled backup failed", 2)>>]]

RECURSIVE DownstreamLoop(_, _)
\* the while loop of _get_all_downstream_hosts from the state st = <<queue, visited,
\* downstream>>
DownstreamLoop(st, parent_to_children) ==
    IF st[1] = <<>> THEN st[3]
    ELSE DownstreamLoop(DownstreamIteration(st[1], st[2], st[3], parent_to_children),
                        parent_to_children)

_get_all_downstream_hosts(root, conns) ==
    DownstreamLoop(<<<<root>>, {}, <<>>>>, ParentToChildren(conns, 1, <<>>))

\* the downstream hosts of every demo host, computed once
DemoDownstreamMemo ==
    [h \in {x : x \in DEMO_HOSTS} |-> _get_all_downstream_hosts(h, DEMO_CONNECTIONS)]

\* f"{host} is unavailable (ICMP Ping)" for every demo host, computed once
UnavailableNameMemo ==
    [h \in {x : x \in DEMO_HOSTS} |-> h \o " is unavailable (ICMP Ping)"]

RECURSIVE RootCauseProblems(_, _, _)
\* the loop of call over the root causes of the scenario, from root cause i on
RootCauseProblems(root_causes, i, acc) ==
    IF i > Len(root_causes) THEN acc
    ELSE RootCauseProblems(root_causes, i + 1,
            acc \o <<Problem(root_causes[i], UnavailableNameMemo[root_causes[i]], 5)>>
                \o [j \in 1..Len(DemoDownstreamMemo[root_causes[i]]) |->
                       Problem(DemoDownstreamMemo[root_causes[i]][j],
                               UnavailableNameMemo[DemoDownstreamMemo[root_causes[i]][j]], 4)])

\* the problems of call("problem.get") before the shuffle, for every scenario
GeneratedProblems ==
    [key \in {x : x \in ScenarioKeys} |->
        RootCauseProblems(DEMO_SCENARIOS[key].root_causes, 1, <<>>)
            \o DEMO_SCENARIOS[key].additional_alerts]

\* "unavailable" in name.lower(), for every name of a generated problem
NameIsUnavailable ==
    [n \in UNION {{GeneratedProblems[key][j].name : j \in 1..Len(GeneratedProblems[key])} :
                     key \in ScenarioKeys}
       |-> Contains(Lower(n), "unavailable")]

Reverse(s) == [j \in 1..Len(s) |-> s[Len(s) + 1 - j]]

Rotate(s, k) == [j \in 1..Len(s) |-> s[((j + k - 1) % Len(s)) + 1]]

\* the orders of a list that random.shuffle is taken to produce here: the list, its
\* rotations, and the reverses of these
Orders(s) ==
    {Rotate(s, k) : k \in 0..(Len(s) - 1)} \cup {Reverse(Rotate(s, k)) : k \in 0..(Len(s) - 1)}

\* the hosts with an "unavailable" problem
UnavailableHostsOf(probs) ==
    {probs[j].host : j \in {k \in 1..Len(probs) : NameIsUnavailable[probs[k].name]}}

\* host_problem_map[h]: the last problem of the list on host h
HostProblem(probs, h) ==
    probs[CHOOSE j \in 1..Len(probs) :
            /\ probs[j].host = h
            /\ \A k \in (j + 1)..Len(probs) : probs[k].host # h]

\* the branch of the classification loop host h takes
ClassOf(h, prob, topology_hosts, child_to_parents, unavailable) ==
    IF h \notin topology_hosts THEN "unrelated"
    ELSE IF ~NameIsUnavailable[prob.name] THEN "unrelated"
    ELSE IF \E parent \in Range(GetList(child_to_parents, h)) : parent \in unavailable THEN "symptom"
    ELSE "root_cause"

RcaOf(probs, topology_hosts, child_to_parents, unavailable) ==
    [root_causes |->
        {[host |-> h, severity |-> HostProblem(probs, h).severity,
          impacts |-> get_all_impacts(h, unavailable, child_to_parents)] :
            h \in {x \in {probs[j].host : j \in 1..Len(probs)} :
                     ClassOf(x, HostProblem(probs, x), topology_hosts, child_to_parents,
                             unavailable) = "root_cause"}},
     symptoms |->
        {x \in {probs[j].host : j \in 1..Len(probs)} :
            ClassOf(x, HostProblem(probs, x), topology_hosts, child_to_parents, unavailable) = "symptom"},
     unrelated |->
        {x \in {probs[j].host : j \in 1..Len(probs)} :
            ClassOf(x, HostProblem(probs, x), topology_hosts, child_to_parents, unavailable) = "unrelated"}]

perform_rca_simple(probs, topology_hosts, conns) ==
    RcaOf(probs, topology_hosts, ChildToParents(conns, 1, <<>>), UnavailableHostsOf(probs))

InitRca ==
    /\ pc = "scenario"
    /\ topology = <<>>
    /\ api_key = FALSE
    /\ api_configured = FALSE
    /\ alarms = <<>>
    /\ msg_map = <<>>
    /\ silent_suspects = <<>>
    /\ idx = 0
    /\ results = <<>>
    /\ requests = <<>>
    /\ depth_call = NoCall
    /\ depth_result = Inconclusive
    /\ children_map = <<>>
    /\ NoSanitizeCall
    /\ NoRerun
    /\ NoPage

rcaRest ==
    <<engineVars, rerunVars, devices, connections, root_host, unavailable_hosts, queue, visited,
      downstream, impacts>>

\* MockZabbixAPI(key).call("problem.get"): the generated problems, shuffled
ProblemGet ==
    /\ pc = "scenario"
    /\ \E key \in ScenarioKeys :
          /\ scenario_key' = key
          /\ problems' \in Orders(GeneratedProblems[key])
    /\ pc' = "problems"
    /\ UNCHANGED <<rcaRest, reordered, rca, rca_reordered>>

\* the same problems in another order
Reorder ==
    /\ pc = "problems"
    /\ reordered' \in Orders(problems)
    /\ pc' = "reordered"
    /\ UNCHANGED <<rcaRest, scenario_key, problems, rca, rca_reordered>>

\* perform_rca_simple on the problems and on the reordered problems
PerformRca ==
    /\ pc = "reordered"
    /\ rca' = perform_rca_simple(problems, DEMO_HOSTS, DEMO_CONNECTIONS)
    /\ rca_reordered' = perform_rca_simple(reordered, DEMO_HOSTS, DEMO_CONNECTIONS)
    /\ pc' = "done"
    /\ UNCHANGED <<rcaRest, scenario_key, problems, reordered>>

NextRca == ProblemGet \/ Reorder \/ PerformRca

SpecRca == InitRca /\ [][NextRca]_vars

RcaReturned == pc = "done" /\ scenario_key # None

\* the hosts of the root causes of a result
RootCauseHosts(r) == {x.host : x \in r.root_causes}

\* C27: for every scenario and every order of its problems, the root-cause hosts
\* perform_rca_simple returns are the declared root_causes of the scenario
RootCausesAsDeclared ==
    RcaReturned => RootCauseHosts(rca) = Range(DEMO_SCENARIOS[scenario_key].root_causes)

\* the cascade scenario has been analysed: Dist-SW02 is among the symptoms
CascadeAnalysedReached ==
    /\ RcaReturned
    /\ scenario_key = "cascade"
    /\ RootCauseHosts(rca) = {"Core-Router01", "Access-SW06"}
    /\ "Dist-SW02" \in rca.symptoms

\* C29: the hosts in root_causes, symptoms and unrelated do not depend on the
\* order of the problems
RcaOrderIndependent ==
    RcaReturned =>
        /\ RootCauseHosts(rca) = RootCauseHosts(rca_reordered)
        /\ rca.symptoms = rca_reordered.symptoms
        /\ rca.unrelated = rca_reordered.unrelated

\* FW01 has an unavailable problem and a CPU problem: it is a symptom in one order
\* and unrelated in the other
LastProblemDecidesReached ==
    /\ RcaReturned
    /\ "FW01" \in rca.symptoms
    /\ "FW01" \in rca_reordered.unrelated
====
